---------------------------- MODULE Spec2Model ----------------------------
(***************************************************************************)
(* A model of mgear's pymaya command shim (pymaya/cmd.py), node handles    *)
(* (pymaya/node.py) and the animation clip panel                           *)
(* (shifter/game_tools_fbx/anim_clip_widgets.py).                          *)
(*                                                                         *)
(* The host application (maya.cmds, OpenMaya, Qt) is the environment: each *)
(* host call answers with a value or raises, chosen by the action that     *)
(* models the calling function.                                            *)
(***************************************************************************)
EXTENDS Integers, Sequences, FiniteSets, TLC

VARIABLES
    cmdCall,       \* the last call of a cmd function: its name and arguments
    cmdOutcome,    \* what that call returned or raised
    cmdHostLog     \* host command calls made by that call, in order, with the answers

VARIABLES
    melInstance,    \* _Mel.__Instance: 0 for None, else the identity of the proxy object
    melCache,       \* the proxy's __cmds dictionary: name -> cached wrapper object
    melNextId,      \* identity given to the next object created
    melLookup,      \* the last attribute lookup on the proxy: name, outcome, host queries
    melHost,        \* the host: the names maya.cmds has, and what whatIs says of each name
    melSucceeded    \* history: names whose lookup succeeded through the host

VARIABLES
    nodeHandles,    \* the node handles alive: variable -> handle object, or NoHandle
    nodeLast        \* the last operation on a handle: what was called and its outcome

cmdVars == <<cmdCall, cmdOutcome, cmdHostLog>>
melVars == <<melInstance, melCache, melNextId, melLookup, melHost, melSucceeded>>
VARIABLES
    ntInstance,     \* _NodeTypes.__Instance: 0 for None, else the identity of the registry
    ntTypes,        \* the registry's __types dictionary: type name -> handle class
    ntNextClass,    \* identity given to the next class registerClass generates
    ntHostTypes,    \* what cmds.allNodeTypes() answers
    ntLast,         \* the last registry operation: call, registry before it, outcome
    ntGiven         \* history: type name -> the class last given to registerClass for it

VARIABLES
    clipExporter,   \* AnimClipsListWidget._fbx_exporter is a widget (TRUE) or None (FALSE)
    clipListRoot,   \* AnimClipsListWidget._root_joint; "" for None
    clipRows,       \* the AnimClipWidget rows of _clips_layout, in layout order
    clipRoot,       \* what the exporter's get_root_joint() answers; "" for none
    clipNode,       \* FbxExportNode.get() answers a node (TRUE) or None (FALSE)
    clipStored,     \* the export node's clip records: root joint -> list of records
    clipEdits,      \* how many times the user has edited a field of a row
    clipLast        \* the last panel operation: what was clicked, the records before, outcome

VARIABLES
    setScene,       \* the object sets of the scene: set name -> its members
    setLast         \* the last ObjectSet call: arguments, scene before, outcome

VARIABLES
    conGraph,       \* the host's connections: a set of <<source plug, destination plug>>
    conLast         \* the last cmd.disconnectAttr call: arguments, graph before, host calls

VARIABLES
    dagScene,       \* the DAG nodes of the scene, by full path name ("|a|b")
    dagLast         \* the last getParent call, or chain of getParent(1) calls, on a node

nodeVars == <<nodeHandles, nodeLast>>
dagVars == <<dagScene, dagLast>>
conVars == <<conGraph, conLast>>
setVars == <<setScene, setLast>>
clipVars ==
    <<clipExporter, clipListRoot, clipRows, clipRoot, clipNode, clipStored, clipEdits, clipLast>>
ntVars == <<ntInstance, ntTypes, ntNextClass, ntHostTypes, ntLast, ntGiven>>

vars == <<cmdVars, melVars, nodeVars, ntVars, clipVars, setVars, conVars, dagVars>>

\* what the actions of one part leave alone
cmdOthers == <<melVars, nodeVars, ntVars, clipVars, setVars, conVars, dagVars>>
melOthers == <<cmdVars, nodeVars, ntVars, clipVars, setVars, conVars, dagVars>>
nodeOthers == <<cmdVars, melVars, ntVars, clipVars, setVars, conVars, dagVars>>
ntOthers == <<cmdVars, melVars, nodeVars, clipVars, setVars, conVars, dagVars>>
clipOthers == <<cmdVars, melVars, nodeVars, ntVars, setVars, conVars, dagVars>>
setOthers == <<cmdVars, melVars, nodeVars, ntVars, clipVars, conVars, dagVars>>
conOthers == <<cmdVars, melVars, nodeVars, ntVars, clipVars, setVars, dagVars>>
dagOthers == <<cmdVars, melVars, nodeVars, ntVars, clipVars, setVars, conVars>>

(***************************************************************************)
(* Python values, tagged by class.                                         *)
(***************************************************************************)
PyNone == [py |-> "None"]
PyNum(n) == [py |-> "num", n |-> n]
PyStr(s) == [py |-> "str", s |-> s]
PyBool(b) == [py |-> "bool", b |-> b]
PyList(items) == [py |-> "list", items |-> items]
PyTuple(items) == [py |-> "tuple", items |-> items]
PyNode(name) == [py |-> "node", name |-> name]
PyAttr(name) == [py |-> "attr", name |-> name]
PyData(cls, items) == [py |-> cls, items |-> items]

IsContainer(v) == v.py \in {"list", "tuple", "set"}

(***************************************************************************)
(* Outcomes of a call: a returned value or a raised exception.             *)
(***************************************************************************)
Return(v) == [kind |-> "return", val |-> v]
Raise(exc, args) == [kind |-> "raise", exc |-> exc, args |-> args]

\* what the host answers to one command call
HostOk(v) == [ok |-> TRUE, val |-> v]
HostFail(exc, args) == [ok |-> FALSE, exc |-> exc, args |-> args]

HostExceptions == {"RuntimeError", "ValueError", "TypeError"}
HostMessages == {<<"No object matches name">>, <<"Error reading data", "n.tx">>}
HostFailures == {HostFail(e, a) : e \in HostExceptions, a \in HostMessages}

HostCall(cmd, args, kwargs, reply) ==
    [cmd |-> cmd, args |-> args, kwargs |-> kwargs, reply |-> reply]

StartsWith(s, p) == Len(s) >= Len(p) /\ SubSeq(s, 1, Len(p)) = p
EndsWith(s, p) == Len(s) >= Len(p) /\ SubSeq(s, Len(s) - Len(p) + 1, Len(s)) = p

\* Python truth value
Truthy(v) ==
    CASE v.py = "None" -> FALSE
      [] v.py = "bool" -> v.b
      [] v.py = "num" -> v.n # 0
      [] v.py = "str" -> v.s # ""
      [] IsContainer(v) -> v.items # <<>>
      [] OTHER -> TRUE

KwSet(kwargs, key, v) == [k \in (DOMAIN kwargs) \cup {key} |-> IF k = key THEN v ELSE kwargs[k]]
KwPop(kwargs, key) == [k \in (DOMAIN kwargs) \ {key} |-> kwargs[k]]
NoKw == [k \in {} |-> PyNone]

(***************************************************************************)
(* cmd.py: argument conversion helpers.                                    *)
(***************************************************************************)
RECURSIVE _obj_to_name(_)
_obj_to_name(arg) ==
    IF IsContainer(arg)
    THEN [py |-> arg.py, items |-> [i \in 1..Len(arg.items) |-> _obj_to_name(arg.items[i])]]
    ELSE IF arg.py \in {"node", "attr"} THEN PyStr(arg.name)
    ELSE arg

\* _obj_to_name applied to a keyword dictionary
_obj_to_name_kw(kwargs) == [k \in DOMAIN kwargs |-> _obj_to_name(kwargs[k])]

RECURSIVE _dt_to_value(_)
_dt_to_value(arg) ==
    IF IsContainer(arg)
    THEN [py |-> arg.py, items |-> [i \in 1..Len(arg.items) |-> _dt_to_value(arg.items[i])]]
    ELSE IF arg.py = "Vector" THEN PyList(<<arg.items[1], arg.items[2], arg.items[3]>>)
    ELSE IF arg.py = "Point"
    THEN PyList(<<arg.items[1], arg.items[2], arg.items[3], arg.items[4]>>)
    ELSE IF arg.py = "Matrix"
    THEN PyList(arg.items[1] \o arg.items[2] \o arg.items[3] \o arg.items[4])
    ELSE arg

(***************************************************************************)
(* cmd.getAttr.  reply1 answers the value query cmds.getAttr; reply2       *)
(* answers the attribute-type query cmds.getAttr(args[0], type=True).      *)
(* The result is the outcome and the host calls made.                      *)
(***************************************************************************)
\* [datatypes.Vector(res[i], res[i + 1], res[i + 2]) for i in range(0, len(res), 3)]
VectorsOfFlat(items) ==
    [j \in 1..((Len(items) + 2) \div 3) |->
        PyData("Vector", <<items[3 * j - 2], items[3 * j - 1], items[3 * j]>>)]

getAttrConvert(res, at) ==
    IF res.items[1].py = "tuple"
    THEN IF at = "pointArray"
         THEN Return(PyList([i \in 1..Len(res.items) |-> PyData("Vector", res.items[i].items)]))
         ELSE IF at = "vectorArray"
         THEN Return(PyList([i \in 1..Len(res.items) |-> PyData("Point", res.items[i].items)]))
         ELSE IF EndsWith(at, "3") THEN Return(PyData("Vector", res.items[1].items))
         ELSE Return(res.items[1])
    ELSE IF at = "vectorArray"
         THEN IF Len(res.items) % 3 # 0
              THEN Raise("IndexError", <<"list index out of range">>)
              ELSE Return(PyList(VectorsOfFlat(res.items)))
         ELSE IF at = "matrix" THEN Return(PyData("Matrix", res.items))
         ELSE Return(res)

getAttr(args, kwargs, reply1, reply2) ==
    LET nargs == _obj_to_name(args)
        nkw == _obj_to_name_kw(kwargs)
        call1 == HostCall("getAttr", nargs.items, nkw, reply1)
        call2 == HostCall("getAttr", <<nargs.items[1]>>, KwSet(NoKw, "type", PyBool(TRUE)),
                          reply2)
    IN  IF ~reply1.ok
        THEN [outcome |-> Raise("MayaAttributeError", reply1.args), log |-> <<call1>>]
        ELSE IF reply1.val.py = "list" /\ Len(reply1.val.items) > 0
        THEN IF ~reply2.ok
             THEN [outcome |-> Raise(reply2.exc, reply2.args), log |-> <<call1, call2>>]
             ELSE [outcome |-> getAttrConvert(reply1.val, reply2.val.s),
                   log |-> <<call1, call2>>]
        ELSE [outcome |-> Return(reply1.val), log |-> <<call1>>]

(***************************************************************************)
(* cmd.setAttr.  reply answers the one cmds.setAttr call.                  *)
(***************************************************************************)
RECURSIVE FlattenOneLevel(_)
FlattenOneLevel(items) ==
    IF items = <<>> THEN <<>>
    ELSE (IF IsContainer(Head(items)) THEN Head(items).items ELSE <<Head(items)>>)
         \o FlattenOneLevel(Tail(items))

\* type="string" added without looking for the short flag typ
setAttrKwargs_TypOverlooked(fargs, kwargs) ==
    IF Len(fargs) = 2 /\ fargs[2].py = "str" /\ "type" \notin DOMAIN kwargs
    THEN KwSet(kwargs, "type", PyStr("string"))
    ELSE kwargs

setAttrKwargs(fargs, kwargs) ==
    IF /\ Len(fargs) = 2
       /\ fargs[2].py = "str"
       /\ "typ" \notin DOMAIN kwargs
       /\ "type" \notin DOMAIN kwargs
    THEN KwSet(kwargs, "type", PyStr("string"))
    ELSE kwargs

setAttr(args, kwargs, reply) ==
    LET nargs == _dt_to_value(_obj_to_name(args))
        nkw == _obj_to_name_kw(kwargs)
        fargs == FlattenOneLevel(nargs.items)
        call == HostCall("setAttr", fargs, setAttrKwargs(fargs, nkw), reply)
    IN  IF ~reply.ok
        THEN [outcome |-> Raise("MayaAttributeError", reply.args), log |-> <<call>>]
        ELSE [outcome |-> Return(PyNone), log |-> <<call>>]

(***************************************************************************)
(* The scene the cmd functions run against: node names with their host     *)
(* type and inherited types, and the plugs that exist.                     *)
(***************************************************************************)
CmdSceneNodes == {"a", "b"}
CmdSceneAttrs == {"a.tx", "a.ty", "b.tx"}
CmdNodeType(n) == IF n = "a" THEN "transform" ELSE "joint"
CmdInherited(n) == IF n = "a" THEN {"dagNode", "transform"} ELSE {"dagNode", "transform", "joint"}

\* bind.PyNode(name): a handle on the node or plug called name, or an exception
BindPyNode(name) ==
    IF name \in CmdSceneNodes THEN HostOk(PyNode(name))
    ELSE IF name \in CmdSceneAttrs THEN HostOk(PyAttr(name))
    ELSE HostFail("MayaNodeError", <<"No such node">>)

\* cmds.nodeType(name) and cmds.nodeType(name, inherited=True)
HostNodeType(name, inherited) ==
    IF name \notin CmdSceneNodes THEN HostFail("RuntimeError", <<"No object matches name">>)
    ELSE IF inherited THEN HostOk(CmdInherited(name))
    ELSE HostOk({CmdNodeType(name)})

SCOPE_ATTR == 0
SCOPE_NODE == 1
__SCOPE_ATTR_FUNCS == {"listAttr"}

\* only the elements of the outermost container converted
_name_to_obj_Shallow(arg, scope, known_node) ==
    LET one(x) == IF x.py # "str" THEN x
                  ELSE LET target == IF scope = SCOPE_ATTR /\ known_node.py # "None"
                                     THEN known_node.s \o "." \o x.s
                                     ELSE x.s
                       IN  IF BindPyNode(target).ok THEN BindPyNode(target).val ELSE x
    IN  IF IsContainer(arg)
        THEN [py |-> arg.py, items |-> [i \in 1..Len(arg.items) |-> one(arg.items[i])]]
        ELSE one(arg)

RECURSIVE _name_to_obj(_, _, _)
_name_to_obj(arg, scope, known_node) ==
    IF arg.py = "None" THEN PyNone
    ELSE IF IsContainer(arg)
    THEN [py |-> arg.py,
          items |-> [i \in 1..Len(arg.items) |-> _name_to_obj(arg.items[i], scope, known_node)]]
    ELSE IF arg.py = "str"
    THEN LET target == IF scope = SCOPE_ATTR /\ known_node.py # "None"
                       THEN known_node.s \o "." \o arg.s
                       ELSE arg.s
             bound == BindPyNode(target)
         IN  IF bound.ok THEN bound.val ELSE arg
    ELSE arg

(***************************************************************************)
(* _pymaya_cmd_wrap(func, wrap_object, scope): the wrapper put around      *)
(* every host command that has no hand-written function.  reply answers    *)
(* the wrapped command, sel the selection query made in attribute scope    *)
(* when the call has no positional argument.                               *)
(***************************************************************************)
\* res = res[0] if res else None
ConstraintFirst(res) ==
    IF ~Truthy(res) THEN Return(PyNone)
    ELSE IF IsContainer(res) THEN Return(res.items[1])
    ELSE IF res.py = "str" THEN Return(PyStr(SubSeq(res.s, 1, 1)))
    ELSE Raise("TypeError", <<"object is not subscriptable">>)

\* the normalisation skipped: the host's None is passed on
listNoneToEmpty_Skipped(fname, res) == res

\* if func.__name__.startswith("list") and res is None: res = []
listNoneToEmpty(fname, res) ==
    IF StartsWith(fname, "list") /\ res.py = "None" THEN PyList(<<>>) ELSE res

wrapKnownNode(scope, nargs, sel) ==
    LET candidate == IF nargs.items # <<>> THEN nargs.items[1]
                     ELSE IF sel.ok /\ Truthy(sel.val) THEN sel.val.items[1]
                     ELSE PyNone
    IN  IF scope # SCOPE_ATTR THEN PyNone
        ELSE IF candidate.py = "None" THEN PyNone
        ELSE IF _name_to_obj(candidate, SCOPE_NODE, PyNone).py \in {"node", "attr"}
        THEN candidate
        ELSE PyNone

_pymaya_cmd_wrap(fname, wrap_object, scope, args, kwargs, reply, sel) ==
    LET nargs == _obj_to_name(args)
        nkw == _obj_to_name_kw(kwargs)
        call == HostCall(fname, nargs.items, nkw, reply)
        selNeeded == wrap_object /\ scope = SCOPE_ATTR /\ nargs.items = <<>>
        selCall == HostCall("ls", <<>>, KwSet(NoKw, "sl", PyBool(TRUE)), sel)
        first == IF EndsWith(fname, "Constraint") /\ "query" \notin DOMAIN nkw
                 THEN ConstraintFirst(reply.val)
                 ELSE Return(reply.val)
        res == listNoneToEmpty(fname, first.val)
    IN  IF ~reply.ok
        THEN [outcome |-> Raise(reply.exc, reply.args), log |-> <<call>>]
        ELSE IF first.kind = "raise" THEN [outcome |-> first, log |-> <<call>>]
        ELSE IF ~wrap_object THEN [outcome |-> Return(res), log |-> <<call>>]
        ELSE IF selNeeded /\ ~sel.ok
        THEN [outcome |-> Raise(sel.exc, sel.args), log |-> <<call, selCall>>]
        ELSE [outcome |-> Return(_name_to_obj(res, scope, wrapKnownNode(scope, nargs, sel))),
              log |-> IF selNeeded THEN <<call, selCall>> ELSE <<call>>]

(***************************************************************************)
(* cmd.listHistory: the host's list, filtered by exactType or type.        *)
(***************************************************************************)
\* res = cmds.listX(...) or []
OrEmptyList(v) == IF Truthy(v) THEN v ELSE PyList(<<>>)

\* [x for x in res if <wanted> matches cmds.nodeType(x)]: the kept elements, the
\* nodeType calls made, and the first failure of one of them
RECURSIVE FilterByType(_, _, _)
FilterByType(items, wanted, inherited) ==
    IF items = <<>> THEN [ok |-> TRUE, items |-> <<>>, log |-> <<>>]
    ELSE LET x == Head(items)
             t == HostNodeType(x.s, inherited)
             kw == IF inherited THEN KwSet(NoKw, "inherited", PyBool(TRUE)) ELSE NoKw
             call == HostCall("nodeType", <<x>>, kw, t)
             rest == FilterByType(Tail(items), wanted, inherited)
         IN  IF ~t.ok THEN [ok |-> FALSE, items |-> <<>>, log |-> <<call>>]
             ELSE [ok |-> rest.ok,
                   items |-> IF ~rest.ok THEN <<>>
                             ELSE IF wanted \in t.val THEN <<x>> \o rest.items
                             ELSE rest.items,
                   log |-> <<call>> \o rest.log]

listHistory(args, type, exactType, kwargs, reply) ==
    LET nargs == _obj_to_name(args)
        nkw == _obj_to_name_kw(kwargs)
        call == HostCall("listHistory", nargs.items, nkw, reply)
        res == OrEmptyList(reply.val)
        f == IF Truthy(exactType) THEN FilterByType(res.items, exactType.s, FALSE)
             ELSE FilterByType(res.items, type.s, TRUE)
    IN  IF ~reply.ok
        THEN [outcome |-> Raise(reply.exc, reply.args), log |-> <<call>>]
        ELSE IF ~Truthy(exactType) /\ ~Truthy(type)
        THEN [outcome |-> Return(_name_to_obj(res, SCOPE_NODE, PyNone)), log |-> <<call>>]
        ELSE IF ~f.ok
        THEN [outcome |-> Raise("RuntimeError", <<"No object matches name">>),
              log |-> <<call>> \o f.log]
        ELSE [outcome |-> Return(_name_to_obj(PyList(f.items), SCOPE_NODE, PyNone)),
              log |-> <<call>> \o f.log]

(***************************************************************************)
(* cmd.listConnections.  reply1 answers the only host call, or with        *)
(* sourceFirst the source-side query; reply2 the destination-side query.   *)
(***************************************************************************)
listConnectionsSourceKwargs(kwargs) ==
    LET k1 == IF "source" \notin DOMAIN kwargs \/ ~Truthy(kwargs["source"])
              THEN KwSet(kwargs, "source", PyBool(TRUE))
              ELSE kwargs
    IN  IF "destination" \notin DOMAIN k1 \/ Truthy(k1["destination"])
        THEN KwSet(k1, "destination", PyBool(FALSE))
        ELSE k1

listConnectionsDestinationKwargs(kwargs) ==
    KwSet(KwSet(listConnectionsSourceKwargs(kwargs), "source", PyBool(FALSE)),
          "destination", PyBool(TRUE))

\* [(c[i + 1], c[i]) for i in range(0, len(c), 2)], and the same unswapped
PairsOf(c, swap) ==
    [j \in 1..(Len(c) \div 2) |->
        IF swap THEN PyTuple(<<c[2 * j], c[2 * j - 1]>>) ELSE PyTuple(<<c[2 * j - 1], c[2 * j]>>)]

listConnections(args, sourceFirst, kwargs, reply1, reply2) ==
    LET nargs == _obj_to_name(args)
        nkw == _obj_to_name_kw(kwargs)
        plain == HostCall("listConnections", nargs.items, nkw, reply1)
        call1 == HostCall("listConnections", nargs.items, listConnectionsSourceKwargs(nkw), reply1)
        call2 == HostCall("listConnections", nargs.items,
                          listConnectionsDestinationKwargs(nkw), reply2)
        c1 == OrEmptyList(reply1.val).items
        c2 == OrEmptyList(reply2.val).items
        indexError == Raise("IndexError", <<"list index out of range">>)
    IN  IF ~Truthy(sourceFirst)
        THEN IF ~reply1.ok
             THEN [outcome |-> Raise(reply1.exc, reply1.args), log |-> <<plain>>]
             ELSE [outcome |-> Return(_name_to_obj(OrEmptyList(reply1.val), SCOPE_NODE, PyNone)),
                   log |-> <<plain>>]
        ELSE IF ~reply1.ok
        THEN [outcome |-> Raise(reply1.exc, reply1.args), log |-> <<call1>>]
        ELSE IF Len(c1) % 2 # 0 THEN [outcome |-> indexError, log |-> <<call1>>]
        ELSE IF ~reply2.ok
        THEN [outcome |-> Raise(reply2.exc, reply2.args), log |-> <<call1, call2>>]
        ELSE IF Len(c2) % 2 # 0 THEN [outcome |-> indexError, log |-> <<call1, call2>>]
        ELSE [outcome |-> Return(_name_to_obj(PyList(PairsOf(c2, FALSE) \o PairsOf(c1, TRUE)),
                                              SCOPE_NODE, PyNone)),
              log |-> <<call1, call2>>]

(***************************************************************************)
(* Calls of cmd.getAttr and cmd.setAttr, over bounded inputs and every     *)
(* answer of the host.                                                     *)
(***************************************************************************)
Num3 == <<PyNum(1), PyNum(2), PyNum(3)>>
Num4 == <<PyNum(1), PyNum(2), PyNum(3), PyNum(4)>>

GetAttrArgs == {PyTuple(<<PyStr("n.t")>>), PyTuple(<<PyNode("n")>>)}
GetAttrKwargs == {NoKw, KwSet(NoKw, "asString", PyBool(TRUE))}
GetAttrValues ==
    { PyNone, PyNum(1), PyStr("a"), PyList(<<>>),
      PyList(<<PyTuple(Num3)>>), PyList(<<PyTuple(Num3), PyTuple(Num3)>>),
      PyList(Num3), PyList(Num4) }
AttrTypes == {"double3", "double", "pointArray", "vectorArray", "matrix"}

SetAttrArgs ==
    { PyTuple(<<PyStr("n.tx"), PyNum(1)>>),
      PyTuple(<<PyStr("n.s"), PyStr("a")>>),
      PyTuple(<<PyNode("n"), PyStr("a")>>),
      PyTuple(<<PyStr("n.t"), PyNum(1), PyNum(2), PyNum(3)>>),
      PyTuple(<<PyStr("n.t"), PyData("Vector", Num3)>>),
      PyTuple(<<PyStr("n.t"), PyData("Point", Num4)>>),
      PyTuple(<<PyStr("n.m"), PyData("Matrix", <<Num4, Num4, Num4, Num4>>)>>),
      PyTuple(<<PyStr("n.t"), PyList(Num3)>>),
      PyTuple(<<PyList(<<PyStr("n.s"), PyStr("a")>>)>>),
      PyTuple(<<PyStr("n.s"), PyList(<<PyStr("a")>>)>>),
      PyTuple(<<PyStr("n.t"), PyList(<<PyData("Vector", Num3)>>)>>),
      PyTuple(<<PyStr("n.s")>>) }
SetAttrKwargs ==
    { NoKw, KwSet(NoKw, "type", PyStr("double3")), KwSet(NoKw, "typ", PyStr("string")),
      KwSet(NoKw, "lock", PyBool(TRUE)) }

NoCall == [fn |-> "none", args |-> PyTuple(<<>>), kwargs |-> NoKw]

CmdInit ==
    /\ cmdCall = NoCall
    /\ cmdOutcome = Return(PyNone)
    /\ cmdHostLog = <<>>

\* no cmd function is running: the functions keep no state between calls
CmdIdle == cmdCall = NoCall

\* the caller has taken the outcome of the last call
CmdDone ==
    /\ ~CmdIdle
    /\ cmdCall' = NoCall
    /\ cmdOutcome' = Return(PyNone)
    /\ cmdHostLog' = <<>>
    /\ UNCHANGED cmdOthers

GetAttrCall ==
    /\ CmdIdle
    /\ \E args \in GetAttrArgs, kwargs \in GetAttrKwargs,
       reply1 \in HostFailures \cup {HostOk(v) : v \in GetAttrValues},
       reply2 \in HostFailures \cup {HostOk(PyStr(t)) : t \in AttrTypes} :
        LET r == getAttr(args, kwargs, reply1, reply2)
        IN  /\ cmdCall' = [fn |-> "getAttr", args |-> args, kwargs |-> kwargs]
            /\ cmdOutcome' = r.outcome
            /\ cmdHostLog' = r.log
    /\ UNCHANGED cmdOthers

SetAttrCall ==
    /\ CmdIdle
    /\ \E args \in SetAttrArgs, kwargs \in SetAttrKwargs,
       reply \in HostFailures \cup {HostOk(PyNone)} :
        LET r == setAttr(args, kwargs, reply)
        IN  /\ cmdCall' = [fn |-> "setAttr", args |-> args, kwargs |-> kwargs]
            /\ cmdOutcome' = r.outcome
            /\ cmdHostLog' = r.log
    /\ UNCHANGED cmdOthers

WrappedCmds == {"listRelatives", "listAttr", "ls", "parentConstraint"}
NameArgs ==
    { PyTuple(<<>>), PyTuple(<<PyStr("a")>>), PyTuple(<<PyNode("b")>>),
      PyTuple(<<PyStr("zz")>>) }
QueryKwargs == {NoKw, KwSet(NoKw, "query", PyBool(TRUE)), KwSet(NoKw, "q", PyBool(TRUE))}
NameLists ==
    { PyList(<<>>), PyList(<<PyStr("a")>>), PyList(<<PyStr("b"), PyStr("zz"), PyStr("a")>>),
      PyList(<<PyStr("b"), PyStr("a"), PyStr("b")>>),
      PyList(<<PyStr("tx"), PyStr("tz"), PyStr("ty")>>) }
SomeHostFailures == {HostFail("RuntimeError", <<"No object matches name">>)}
ListReplies == SomeHostFailures \cup {HostOk(v) : v \in {PyNone} \cup NameLists}
WrapReplies == ListReplies \cup {HostOk(PyStr("a")), HostOk(PyNum(0)), HostOk(PyNum(2))}
SelReplies == SomeHostFailures \cup {HostOk(PyList(<<>>)), HostOk(PyList(<<PyStr("a")>>))}

\* a call of a wrapped host command, through cmd (wrap_object) or through mel
WrapCall ==
    /\ CmdIdle
    /\ \E fname \in WrappedCmds, wrap_object \in BOOLEAN, args \in NameArgs,
       kwargs \in QueryKwargs, reply \in WrapReplies, sel \in SelReplies :
        LET scope == IF wrap_object /\ fname \in __SCOPE_ATTR_FUNCS
                     THEN SCOPE_ATTR ELSE SCOPE_NODE
            r == _pymaya_cmd_wrap(fname, wrap_object, scope, args, kwargs, reply, sel)
        IN  /\ cmdCall' = [fn |-> fname, args |-> args, kwargs |-> kwargs,
                           wrap_object |-> wrap_object, scope |-> scope]
            /\ cmdOutcome' = r.outcome
            /\ cmdHostLog' = r.log
    /\ UNCHANGED cmdOthers

TypeFilters == {PyNone, PyStr("joint"), PyStr("transform")}

ListHistoryCall ==
    /\ CmdIdle
    /\ \E args \in NameArgs, type \in TypeFilters, exactType \in TypeFilters,
       reply \in ListReplies :
        LET r == listHistory(args, type, exactType, NoKw, reply)
        IN  /\ cmdCall' = [fn |-> "listHistory", args |-> args, kwargs |-> NoKw,
                           type |-> type, exactType |-> exactType]
            /\ cmdOutcome' = r.outcome
            /\ cmdHostLog' = r.log
    /\ UNCHANGED cmdOthers

ConnectionKwargs ==
    { NoKw, KwSet(NoKw, "connections", PyBool(TRUE)), KwSet(NoKw, "source", PyBool(FALSE)),
      KwSet(NoKw, "destination", PyBool(FALSE)),
      KwSet(KwSet(NoKw, "source", PyBool(TRUE)), "destination", PyBool(TRUE)) }
ConnectionReplies ==
    ListReplies \cup {HostOk(PyList(<<PyStr("a.tx"), PyStr("b.tx")>>)),
                      HostOk(PyList(<<PyStr("a.tx"), PyStr("b.tx"), PyStr("a.ty"), PyStr("c.ty")>>))}

ListConnectionsCall ==
    /\ CmdIdle
    /\ \E args \in NameArgs, sourceFirst \in {PyBool(FALSE), PyBool(TRUE)},
       kwargs \in ConnectionKwargs, reply1 \in ConnectionReplies, reply2 \in ConnectionReplies :
        LET r == listConnections(args, sourceFirst, kwargs, reply1, reply2)
        IN  /\ cmdCall' = [fn |-> "listConnections", args |-> args, kwargs |-> kwargs,
                           sourceFirst |-> sourceFirst]
            /\ cmdOutcome' = r.outcome
            /\ cmdHostLog' = r.log
    /\ UNCHANGED cmdOthers

(***************************************************************************)
(* cmd.keyframe and cmd.cutKey.  reply answers the one host call.          *)
(***************************************************************************)
\* isinstance(t, (int, float)); a bool is an int
IsIntOrFloat(v) == v.py \in {"num", "bool"}

\* the time keyword put back even for a value that is None
timeKwargs_NoneForwarded(kwargs) ==
    LET t == IF "time" \in DOMAIN kwargs THEN kwargs["time"]
             ELSE IF "k" \in DOMAIN kwargs THEN kwargs["k"] ELSE PyNone
        rest == KwPop(KwPop(kwargs, "k"), "time")
    IN  IF "time" \notin DOMAIN kwargs /\ "k" \notin DOMAIN kwargs THEN rest
        ELSE KwSet(rest, "time", IF IsIntOrFloat(t) THEN PyTuple(<<t>>) ELSE t)

\* t = kwargs.pop("time", kwargs.pop("k", None)) and the time keyword put
\* back for a value that is not None: the keyword arguments after it
timeKwargs(kwargs) ==
    LET t == IF "time" \in DOMAIN kwargs THEN kwargs["time"]
             ELSE IF "k" \in DOMAIN kwargs THEN kwargs["k"] ELSE PyNone
        rest == KwPop(KwPop(kwargs, "k"), "time")
    IN  IF t.py = "None" THEN rest
        ELSE IF IsIntOrFloat(t) THEN KwSet(rest, "time", PyTuple(<<t>>))
        ELSE KwSet(rest, "time", t)

keyframe(args, kwargs, reply) ==
    LET call == HostCall("keyframe", _obj_to_name(args).items,
                         timeKwargs(_obj_to_name_kw(kwargs)), reply)
    IN  IF ~reply.ok THEN [outcome |-> Raise(reply.exc, reply.args), log |-> <<call>>]
        ELSE [outcome |-> Return(reply.val), log |-> <<call>>]

cutKey(args, kwargs, reply) ==
    LET nkwargs == [k \in DOMAIN kwargs |-> _obj_to_name(kwargs[k])]
        call == HostCall("cutKey", _obj_to_name(args).items, timeKwargs(nkwargs), reply)
    IN  IF ~reply.ok THEN [outcome |-> Raise(reply.exc, reply.args), log |-> <<call>>]
        ELSE [outcome |-> Return(reply.val), log |-> <<call>>]

TimeValues ==
    { PyNone, PyNum(0), PyNum(5), PyBool(TRUE), PyTuple(<<PyNum(1), PyNum(10)>>),
      PyStr("1:10"), PyNode("b") }
KeyValues == {PyNone, PyNum(3), PyTuple(<<PyNum(2), PyNum(4)>>)}
TimeCallKwargs ==
    {[k \in K |-> CASE k = "time" -> t [] k = "k" -> kv [] OTHER -> PyNode("b")] :
        K \in SUBSET {"time", "k", "attribute"}, t \in TimeValues, kv \in KeyValues}
KeyReplies == {HostOk(PyNum(2)), HostOk(PyNone), HostFail("RuntimeError", <<"No object matches name">>)}

KeyframeCall ==
    /\ CmdIdle
    /\ \E args \in NameArgs, kwargs \in TimeCallKwargs, reply \in KeyReplies :
        LET r == keyframe(args, kwargs, reply)
        IN  /\ cmdCall' = [fn |-> "keyframe", args |-> args, kwargs |-> kwargs]
            /\ cmdOutcome' = r.outcome
            /\ cmdHostLog' = r.log
    /\ UNCHANGED cmdOthers

CutKeyCall ==
    /\ CmdIdle
    /\ \E args \in NameArgs, kwargs \in TimeCallKwargs, reply \in KeyReplies :
        LET r == cutKey(args, kwargs, reply)
        IN  /\ cmdCall' = [fn |-> "cutKey", args |-> args, kwargs |-> kwargs]
            /\ cmdOutcome' = r.outcome
            /\ cmdHostLog' = r.log
    /\ UNCHANGED cmdOthers

(***************************************************************************)
(* cmd.sets.  order is the order in which the caller wrote the keywords,   *)
(* which is the order kwargs.items() yields them in.                       *)
(***************************************************************************)
_set_set_flags ==
    { "subtract", "sub", "union", "un", "intersection", "int", "isIntersecting", "ii",
      "isMember", "im", "split", "sp", "addElement", "add", "include", "in",
      "remove", "rm", "forceElement", "fe" }
_set_flags == {"copy", "cp", "clear", "cl", "flatten", "fl"}

\* the loop taken to its end: the last matching flag instead of the first
setsMatchingFlag_Last(order) ==
    LET hits == {i \in 1..Len(order) : order[i] \in _set_set_flags \cup _set_flags}
    IN  IF hits = {} THEN 0 ELSE CHOOSE i \in hits : \A j \in hits : j <= i

\* the position of the flag at which the loop breaks, 0 when it runs out
setsMatchingFlag(order) ==
    LET hits == {i \in 1..Len(order) : order[i] \in _set_set_flags \cup _set_flags}
    IN  IF hits = {} THEN 0 ELSE CHOOSE i \in hits : \A j \in hits : i <= j

sets(args, order, kwargs, reply) ==
    LET nargs == _obj_to_name(args).items
        nkw == _obj_to_name_kw(kwargs)
        i == setsMatchingFlag(order)
        flag == order[i]
        value == nkw[flag]
        hargs == IF i = 0 THEN nargs
                 ELSE IF flag \in _set_flags THEN <<>>
                 ELSE IF IsContainer(value) THEN value.items
                 ELSE IF value.py = "str" THEN <<value>>
                 ELSE <<>>
        hkw == IF i = 0 THEN nkw ELSE KwSet(nkw, flag, nargs[1])
        call == HostCall("sets", hargs, hkw, reply)
    IN  IF i # 0 /\ nargs = <<>>
        THEN [outcome |-> Raise("IndexError", <<"tuple index out of range">>), log |-> <<>>]
        ELSE IF ~reply.ok THEN [outcome |-> Raise(reply.exc, reply.args), log |-> <<call>>]
        ELSE [outcome |-> Return(_name_to_obj(reply.val, SCOPE_NODE, PyNone)), log |-> <<call>>]

SetsFlags == {"add", "rm", "copy", "name"}
SetsValues ==
    { PyList(<<PyStr("a"), PyNode("b")>>), PyTuple(<<PyStr("zz")>>),
      [py |-> "set", items |-> <<PyStr("a")>>], PyList(<<>>),
      PyStr("a"), PyNode("b"), PyBool(TRUE) }
SetsOrders ==
    {<<>>} \cup {<<f>> : f \in SetsFlags}
           \cup {o \in SetsFlags \X SetsFlags : o[1] # o[2]}
SetsArgs ==
    { PyTuple(<<>>), PyTuple(<<PyStr("s1")>>), PyTuple(<<PyNode("b")>>),
      PyTuple(<<PyStr("s1"), PyStr("a")>>) }
SetsReplies ==
    { HostOk(PyStr("a")), HostOk(PyList(<<PyStr("a"), PyStr("zz")>>)), HostOk(PyBool(TRUE)),
      HostFail("TypeError", <<"Invalid arguments">>) }

SetsCall ==
    /\ CmdIdle
    /\ \E args \in SetsArgs, order \in SetsOrders, v1 \in SetsValues, v2 \in SetsValues,
          reply \in SetsReplies :
        LET kwargs == [k \in {order[j] : j \in 1..Len(order)} |->
                           IF k = order[1] THEN v1 ELSE v2]
            r == sets(args, order, kwargs, reply)
        IN  /\ Len(order) < 2 => v2 = PyBool(TRUE)
            /\ Len(order) < 1 => v1 = PyBool(TRUE)
            /\ cmdCall' = [fn |-> "sets", args |-> args, kwargs |-> kwargs, order |-> order]
            /\ cmdOutcome' = r.outcome
            /\ cmdHostLog' = r.log
    /\ UNCHANGED cmdOthers

(***************************************************************************)
(* _name_to_obj called on a value, as the wrappers and the hand-written    *)
(* functions call it on the host's results.                                *)
(***************************************************************************)
NameValues ==
    { PyNone, PyStr("a"), PyStr("tx"), PyStr("zz"), PyStr("a.tx"), PyNum(2), PyBool(FALSE),
      PyNode("b"), PyList(<<>>), PyTuple(<<PyStr("b"), PyStr("tx")>>),
      [py |-> "set", items |-> <<PyStr("a"), PyStr("zz")>>],
      PyList(<<PyStr("a"), PyList(<<PyStr("tx"), PyTuple(<<PyStr("zz"), PyNone, PyStr("ty")>>)>>),
               PyNum(2), PyStr("b")>>) }
KnownNodes == {PyNone, PyStr("a"), PyStr("b"), PyStr("zz")}

NameToObjCall ==
    /\ CmdIdle
    /\ \E arg \in NameValues, scope \in {SCOPE_NODE, SCOPE_ATTR}, known_node \in KnownNodes :
        /\ cmdCall' = [fn |-> "_name_to_obj", args |-> PyTuple(<<arg>>), kwargs |-> NoKw,
                       scope |-> scope, known_node |-> known_node]
        /\ cmdOutcome' = Return(_name_to_obj(arg, scope, known_node))
        /\ cmdHostLog' = <<>>
    /\ UNCHANGED cmdOthers

CmdNext ==
    \/ GetAttrCall \/ SetAttrCall \/ WrapCall \/ ListHistoryCall \/ ListConnectionsCall
    \/ KeyframeCall \/ CutKeyCall \/ SetsCall \/ NameToObjCall
    \/ CmdDone

(***************************************************************************)
(* The mel proxy: class _Mel, a singleton whose attribute lookups resolve  *)
(* to wrappers of host commands and MEL procedures, cached by name.        *)
(***************************************************************************)
MelNames == {"ls", "myProc", "nope", "eval"}
WhatIsAnswers ==
    { "Unknown", "Mel procedure found in: /scripts/myProc.mel",
      "Mel procedure entered interactively.", "Command" }
MaxWrappers == 5

\* names the instance or its class really has: found by the plain lookup
MelOwnAttributes == {"eval"}

MelInit ==
    /\ melInstance = 0
    /\ melCache = [n \in {} |-> 0]
    /\ melNextId = 1
    /\ melLookup = [name |-> "", outcome |-> Return(PyNone), queries |-> <<>>]
    /\ melHost = [cmds |-> {"ls"}, whatIs |-> [n \in MelNames |-> "Unknown"]]
    /\ melSucceeded = {}

\* the cache check skipped: the host is asked on every lookup
MelCacheHit_Skipped(cache, name) == FALSE

\* if name in cache: return cache[name]
MelCacheHit(cache, name) == name \in DOMAIN cache

\* _Mel(): __new__ creates the instance and its empty cache once
Mel__new__ ==
    /\ melNextId <= MaxWrappers
    /\ IF melInstance = 0
       THEN /\ melInstance' = melNextId
            /\ melNextId' = melNextId + 1
            /\ melCache' = [n \in {} |-> 0]
       ELSE UNCHANGED <<melInstance, melNextId, melCache>>
    /\ UNCHANGED <<melLookup, melHost, melSucceeded>>
    /\ UNCHANGED melOthers

\* mel.<name>: _Mel.__getattribute__(name)
Mel__getattribute__ ==
    /\ melInstance # 0
    /\ melNextId <= MaxWrappers
    /\ \E name \in MelNames :
        LET fresh(kind) == [id |-> melNextId, kind |-> kind, name |-> name]
            isCmd == name \in melHost.cmds
            res == melHost.whatIs[name]
            found(obj, queries) ==
                /\ melCache' = [n \in (DOMAIN melCache) \cup {name} |->
                                   IF n = name THEN obj ELSE melCache[n]]
                /\ melNextId' = melNextId + 1
                /\ melLookup' = [name |-> name, outcome |-> Return(obj), queries |-> queries]
        IN  IF name \in MelOwnAttributes
            THEN /\ melLookup' = [name |-> name,
                                  outcome |-> Return([id |-> 0, kind |-> "own", name |-> name]),
                                  queries |-> <<>>]
                 /\ UNCHANGED <<melCache, melNextId>>
            ELSE IF MelCacheHit(melCache, name)
            THEN /\ melLookup' = [name |-> name, outcome |-> Return(melCache[name]),
                                  queries |-> <<>>]
                 /\ UNCHANGED <<melCache, melNextId>>
            ELSE IF isCmd THEN found(fresh("_pymaya_cmd_wrap"), <<"getattr(cmds)">>)
            ELSE IF EndsWith(res, ".mel")
            THEN found(fresh("__wrap_mel"), <<"getattr(cmds)", "whatIs">>)
            ELSE /\ melLookup' = [name |-> name,
                                  outcome |-> Raise("AttributeError", <<name>>),
                                  queries |-> <<"getattr(cmds)", "whatIs">>]
                 /\ UNCHANGED <<melCache, melNextId>>
    /\ melSucceeded' =
           IF melLookup'.outcome.kind = "return" /\ melLookup'.name \notin MelOwnAttributes
           THEN melSucceeded \cup {melLookup'.name}
           ELSE melSucceeded
    /\ UNCHANGED <<melInstance, melHost>>
    /\ UNCHANGED melOthers

\* the host gains or loses a command (a plug-in is loaded or unloaded)
MelHostCommandChanges ==
    /\ \E name \in MelNames \ MelOwnAttributes :
        melHost' = [melHost EXCEPT !.cmds =
                       IF name \in @ THEN @ \ {name} ELSE @ \cup {name}]
    /\ UNCHANGED <<melInstance, melCache, melNextId, melLookup, melSucceeded>>
    /\ UNCHANGED melOthers

\* a MEL procedure is sourced, redefined or dropped
MelHostProcedureChanges ==
    /\ \E name \in {"myProc", "nope"}, answer \in WhatIsAnswers :
        melHost' = [melHost EXCEPT !.whatIs[name] = answer]
    /\ UNCHANGED <<melInstance, melCache, melNextId, melLookup, melSucceeded>>
    /\ UNCHANGED melOthers

MelNext ==
    Mel__new__ \/ Mel__getattribute__ \/ MelHostCommandChanges \/ MelHostProcedureChanges

(***************************************************************************)
(* Node handles: class _Node.  The scene is the host's: each object has    *)
(* the function sets MObject.hasFn answers for, its plugs, and for a       *)
(* transform the shapes under it.                                          *)
(***************************************************************************)
SceneObjects == {"root", "rootShape", "grp", "mult", "comp", "plug1"}

ObjFns(o) ==
    CASE o \in {"root", "grp"} -> {"kDependencyNode", "kDagNode", "kTransform"}
      [] o = "rootShape" -> {"kDependencyNode", "kDagNode"}
      [] o \in {"mult", "plug1"} -> {"kDependencyNode"}
      [] OTHER -> {}

\* plugs by name; "arr" is an array plug, "s1" exists on the shape only
ObjPlugs(o) ==
    CASE o \in {"root", "grp"} -> {"a1", "arr"}
      [] o = "rootShape" -> {"a1", "s1", "arr"}
      [] o \in {"mult", "plug1"} -> {"a1", "arr"}
      [] OTHER -> {}

ObjShapes(o) == IF o = "root" THEN <<"rootShape">> ELSE <<>>

ObjFullPath(o) == IF o = "rootShape" THEN "|root|rootShape" ELSE "|" \o o

DagMethods == {"getParent", "getChildren", "addChild"}
TransformMethods ==
    { "getBoundingBox", "getPivots", "setTransformation", "getTransformation", "getShape",
      "getShapes", "setMatrix", "getMatrix", "getTranslation", "setTranslation",
      "setRotation", "getRotation", "getScale", "setScale" }

NoHandle == [py |-> "None"]

\* the transform methods bound on every DAG node
BoundMethods_AnyDagNode(fns) ==
    IF "kDagNode" \in fns THEN DagMethods \cup TransformMethods ELSE {}

\* the partial(...) attributes __init__ binds on the instance
BoundMethods(fns) ==
    IF "kDagNode" \in fns
    THEN DagMethods \cup (IF "kTransform" \in fns THEN TransformMethods ELSE {})
    ELSE {}

\* _Node.__getObjectFromName(nodename): the object, or None
getObjectFromName(nodename) ==
    IF nodename \in SceneObjects THEN PyStr(nodename) ELSE PyNone

\* _Node.__init__(nodename_or_mobject); the argument is a name (PyStr) or an
\* MObject (a record naming the scene object)
_Node__init__(nodename_or_mobject) ==
    LET obj == IF nodename_or_mobject.py = "MObject"
               THEN PyStr(nodename_or_mobject.obj)
               ELSE getObjectFromName(nodename_or_mobject.s)
        fns == ObjFns(obj.s)
        dag == "kDagNode" \in fns
    IN  IF obj.py = "None" THEN Raise("MayaNodeError", <<"No such node">>)
        ELSE IF "kDependencyNode" \notin fns
        THEN Raise("MayaNodeError", <<"Not a dependency node">>)
        ELSE Return([py |-> "node",
                     obj |-> obj.s,
                     fn_dag |-> IF dag THEN PyStr(obj.s) ELSE PyNone,
                     dagpath |-> IF dag THEN PyStr(ObjFullPath(obj.s)) ELSE PyNone,
                     is_transform |-> dag /\ "kTransform" \in fns,
                     bound |-> BoundMethods(fns),
                     attrs |-> [n \in {} |-> PyNone]])

isDag(h) == h.fn_dag # PyNone
dagPath(h) == h.dagpath

(***************************************************************************)
(* _Node.attr(name, checkShape).                                           *)
(***************************************************************************)
IsDigit(c) == c \in {"0", "1", "2", "3", "4", "5", "6", "7", "8", "9"}
AllDigits(s) == Len(s) > 0 /\ \A k \in 1..Len(s) : IsDigit(SubSeq(s, k, k))

\* RE_ATTR_INDEX.search(name): where the leftmost "[digits]" starts and ends, or <<0, 0>>
AttrIndexMatch(name) ==
    LET starts == {i \in 1..Len(name) :
                      /\ SubSeq(name, i, i) = "["
                      /\ \E j \in (i + 2)..Len(name) :
                             SubSeq(name, j, j) = "]" /\ AllDigits(SubSeq(name, i + 1, j - 1))}
        first == CHOOSE i \in starts : \A k \in starts : i <= k
        close == CHOOSE j \in (first + 2)..Len(name) :
                     /\ SubSeq(name, j, j) = "]"
                     /\ AllDigits(SubSeq(name, first + 1, j - 1))
    IN  IF starts = {} THEN <<0, 0>> ELSE <<first, close>>

\* fn.findPlug(attrname, False) on the object: the plug, or None for the exception
findPlug(obj, attrname) ==
    IF attrname \in ObjPlugs(obj) THEN PyStr(obj \o "." \o attrname) ELSE PyNone

\* get_shape(): the first shape, or None
getShape(h) == IF ObjShapes(h.obj) = <<>> THEN PyNone ELSE PyStr(ObjShapes(h.obj)[1])

\* get_shape = super().__getattribute__("getShape"); shape = get_shape()
attrShapeLookup(h) ==
    IF "getShape" \in h.bound THEN Return(getShape(h))
    ELSE Raise("AttributeError", <<"object has no attribute 'getShape'">>)

\* the outcome of attr and the handle's attribute cache after it
attr(h, name, checkShape) ==
    LET m == AttrIndexMatch(name)
        attrname == IF m[1] = 0 THEN name ELSE SubSeq(name, 1, m[1] - 1)
        index == IF m[1] = 0 THEN "" ELSE SubSeq(name, m[1], m[2])
        own == findPlug(h.obj, attrname)
        shape == attrShapeLookup(h)
        viaShape == IF shape.val.py = "None" THEN PyNone ELSE findPlug(shape.val.s, attrname)
        p == IF own.py # "None" THEN own ELSE viaShape
        at == PyAttr(p.s \o index)
        found == [outcome |-> Return(at),
                  attrs |-> [n \in (DOMAIN h.attrs) \cup {name} |->
                                IF n = name THEN at ELSE h.attrs[n]]]
        missing == [outcome |-> Raise("MayaAttributeError", <<"No '" \o name \o "' attr found">>),
                    attrs |-> h.attrs]
    IN  IF name \in DOMAIN h.attrs
        THEN [outcome |-> Return(h.attrs[name]), attrs |-> h.attrs]
        ELSE IF own.py # "None" THEN found
        ELSE IF ~checkShape THEN missing
        ELSE IF shape.kind = "raise" THEN [outcome |-> shape, attrs |-> h.attrs]
        ELSE IF p.py = "None" THEN missing
        ELSE found

HandleIds == {"h1"}
AttrNames == {"a1", "s1", "nope", "arr[0]", "s1[12]"}
NodeArguments ==
    {PyStr(o) : o \in SceneObjects \cup {"gone"}} \cup
    {[py |-> "MObject", obj |-> o] : o \in SceneObjects}

NodeInit ==
    /\ nodeHandles = [v \in HandleIds |-> NoHandle]
    /\ nodeLast = [op |-> "none"]

\* v = _Node(nodename_or_mobject)
NodeConstruct ==
    /\ \E v \in HandleIds, arg \in NodeArguments :
        LET r == _Node__init__(arg)
        IN  /\ nodeLast' = [op |-> "_Node", var |-> v, arg |-> arg, outcome |-> r]
            /\ nodeHandles' = IF r.kind = "return"
                               THEN [nodeHandles EXCEPT ![v] = r.val]
                               ELSE nodeHandles
    /\ UNCHANGED nodeOthers

\* v.attr(name, checkShape)
NodeAttr ==
    /\ \E v \in HandleIds, name \in AttrNames, checkShape \in BOOLEAN :
        /\ nodeHandles[v] # NoHandle
        /\ LET r == attr(nodeHandles[v], name, checkShape)
           IN  /\ nodeLast' = [op |-> "attr", var |-> v, name |-> name,
                                checkShape |-> checkShape, outcome |-> r.outcome]
               /\ nodeHandles' = [nodeHandles EXCEPT ![v].attrs = r.attrs]
    /\ UNCHANGED nodeOthers

NodeNext == NodeConstruct \/ NodeAttr

(***************************************************************************)
(* The node-type registry: class _NodeTypes and its instance nt, and       *)
(* BindNode, which asks it for the class of a node's host type.            *)
(***************************************************************************)
LowerLetters == "abcdefghijklmnopqrstuvwxyz"
UpperLetters == "ABCDEFGHIJKLMNOPQRSTUVWXYZ"

\* c.upper() and c.lower() for one character
UpperChar(c) ==
    LET at == {i \in 1..Len(LowerLetters) : SubSeq(LowerLetters, i, i) = c}
    IN  IF at = {} THEN c ELSE LET i == CHOOSE i \in at : TRUE IN SubSeq(UpperLetters, i, i)
LowerChar(c) ==
    LET at == {i \in 1..Len(UpperLetters) : SubSeq(UpperLetters, i, i) = c}
    IN  IF at = {} THEN c ELSE LET i == CHOOSE i \in at : TRUE IN SubSeq(LowerLetters, i, i)

\* the classes the module registers as it is imported
BuiltinClass(name) == [py |-> "class", name |-> name, id |-> 0]
BuiltinTypes ==
    [t \in {"softMod", "objectSet", "nurbsCurve", "skinCluster", "mesh", "joint"} |->
        BuiltinClass(UpperChar(SubSeq(t, 1, 1)) \o SubSeq(t, 2, Len(t)))]

\* the host type of each scene object
ObjType(o) ==
    CASE o \in {"root", "grp"} -> "transform"
      [] o \in {"rootShape", "comp"} -> "mesh"
      [] o = "mult" -> "multiplyDivide"
      [] OTHER -> "myPlugin"

\* the names cmds.objExists answers True for
ExistingNames == SceneObjects

MaxClasses == 3

\* _NodeTypes.__new__: the instance and its dictionary are created once
NodeTypes__new__(instance, types) ==
    IF instance = 0 THEN [instance |-> 1, types |-> <<>>]
    ELSE [instance |-> instance, types |-> types]

\* registerClass(typename, cls): the dictionary and the class counter after it
registerClass(types, nextClass, typename, cls) ==
    LET clsname == UpperChar(SubSeq(typename, 1, 1)) \o SubSeq(typename, 2, Len(typename))
        new == IF cls.py # "None" THEN cls
               ELSE [py |-> "class", name |-> clsname, id |-> nextClass]
    IN  [types |-> [t \in (DOMAIN types) \cup {typename} |->
                        IF t = typename THEN new ELSE types[t]],
         nextClass |-> IF cls.py # "None" THEN nextClass ELSE nextClass + 1]

\* a class generated on every call for a type the host knows
getTypeClass_NoLookup(types, nextClass, hostTypes, typename) ==
    IF typename \in hostTypes
    THEN LET r == registerClass(types, nextClass, typename, PyNone)
         IN  [val |-> r.types[typename], types |-> r.types, nextClass |-> r.nextClass]
    ELSE [val |-> PyNone, types |-> types, nextClass |-> nextClass]

\* getTypeClass(typename): the class or None, the dictionary and the counter after it
getTypeClass(types, nextClass, hostTypes, typename) ==
    IF typename \in DOMAIN types
    THEN [val |-> types[typename], types |-> types, nextClass |-> nextClass]
    ELSE IF typename \in hostTypes
    THEN LET r == registerClass(types, nextClass, typename, PyNone)
         IN  [val |-> r.types[typename], types |-> r.types, nextClass |-> r.nextClass]
    ELSE [val |-> PyNone, types |-> types, nextClass |-> nextClass]

\* BindNode(name): the outcome, the dictionary and the counter after it
BindNode(types, nextClass, hostTypes, name) ==
    LET c == getTypeClass(types, nextClass, hostTypes, ObjType(name))
        made == _Node__init__(PyStr(name))
    IN  IF name \notin ExistingNames
        THEN [outcome |-> Raise("MayaNodeError", <<"No such node">>),
              types |-> types, nextClass |-> nextClass]
        ELSE IF c.val.py = "None"
        THEN [outcome |-> Raise("TypeError", <<"'NoneType' object is not callable">>),
              types |-> c.types, nextClass |-> c.nextClass]
        ELSE IF made.kind = "raise"
        THEN [outcome |-> made, types |-> c.types, nextClass |-> c.nextClass]
        ELSE [outcome |-> Return([py |-> "node", cls |-> c.val, obj |-> made.val.obj,
                                  bound |-> made.val.bound]),
              types |-> c.types, nextClass |-> c.nextClass]

TypeNames == {"transform", "mesh", "multiplyDivide", "myPlugin", "bogus"}
RegisterTypes == {"transform", "mesh", "bogus"}
UserClasses == {PyNone, [py |-> "class", name |-> "MyNode", id |-> 0]}
BindNames == ExistingNames \cup {"gone"}
NtAttributes == {"Transform", "Mesh", "MyPlugin", "Bogus"}

NoNtCall == [op |-> "none", arg |-> "", before |-> <<>>, hostTypes |-> {}, given |-> <<>>]

NtInit ==
    /\ ntInstance = NodeTypes__new__(0, <<>>).instance
    /\ ntTypes = BuiltinTypes
    /\ ntNextClass = 1
    /\ ntHostTypes = {"transform", "mesh", "multiplyDivide"}
    /\ ntGiven = BuiltinTypes
    /\ ntLast = [call |-> NoNtCall,
                cls |-> PyNone, outcome |-> Return(PyNone)]

\* no registry operation is in progress
NtIdle == ntLast.call = NoNtCall

\* the caller has taken the result of the operation
NtDone ==
    /\ ~NtIdle
    /\ ntLast' = [call |-> NoNtCall, cls |-> PyNone, outcome |-> Return(PyNone)]
    /\ UNCHANGED <<ntInstance, ntTypes, ntNextClass, ntHostTypes, ntGiven>>
    /\ UNCHANGED ntOthers

NtCall(op, arg) ==
    [op |-> op, arg |-> arg, before |-> ntTypes, hostTypes |-> ntHostTypes, given |-> ntGiven]

\* _NodeTypes()
NtConstruct ==
    /\ NtIdle
    /\ LET r == NodeTypes__new__(ntInstance, ntTypes)
       IN  /\ ntInstance' = r.instance
           /\ ntTypes' = r.types
           /\ ntLast' = [call |-> NtCall("_NodeTypes", ""), cls |-> PyNone,
                         outcome |-> Return(PyNum(r.instance))]
    /\ UNCHANGED <<ntNextClass, ntHostTypes, ntGiven>>
    /\ UNCHANGED ntOthers

\* nt.registerClass(typename, cls)
NtRegisterClass ==
    /\ NtIdle
    /\ \E typename \in RegisterTypes, cls \in UserClasses :
        LET r == registerClass(ntTypes, ntNextClass, typename, cls)
        IN  /\ r.nextClass <= MaxClasses + 1
            /\ ntTypes' = r.types
            /\ ntNextClass' = r.nextClass
            /\ ntLast' = [call |-> NtCall("registerClass", typename), cls |-> cls,
                          outcome |-> Return(PyNone)]
            /\ ntGiven' = IF cls.py = "None"
                          THEN [t \in (DOMAIN ntGiven) \ {typename} |-> ntGiven[t]]
                          ELSE [t \in (DOMAIN ntGiven) \cup {typename} |->
                                   IF t = typename THEN cls ELSE ntGiven[t]]
    /\ UNCHANGED <<ntInstance, ntHostTypes>>
    /\ UNCHANGED ntOthers

\* nt.getTypeClass(typename)
NtGetTypeClass ==
    /\ NtIdle
    /\ \E typename \in TypeNames :
        LET r == getTypeClass(ntTypes, ntNextClass, ntHostTypes, typename)
        IN  /\ r.nextClass <= MaxClasses + 1
            /\ ntTypes' = r.types
            /\ ntNextClass' = r.nextClass
            /\ ntLast' = [call |-> NtCall("getTypeClass", typename), cls |-> PyNone,
                          outcome |-> Return(r.val)]
    /\ UNCHANGED <<ntInstance, ntHostTypes, ntGiven>>
    /\ UNCHANGED ntOthers

\* nt.<Name>: _NodeTypes.__getattribute__(name)
NtGetattribute ==
    /\ NtIdle
    /\ \E name \in NtAttributes :
        LET typename == LowerChar(SubSeq(name, 1, 1)) \o SubSeq(name, 2, Len(name))
            r == getTypeClass(ntTypes, ntNextClass, ntHostTypes, typename)
        IN  /\ r.nextClass <= MaxClasses + 1
            /\ ntTypes' = r.types
            /\ ntNextClass' = r.nextClass
            /\ ntLast' = [call |-> NtCall("__getattribute__", name), cls |-> PyNone,
                          outcome |-> IF r.val.py = "None"
                                      THEN Raise("AttributeError", <<name>>)
                                      ELSE Return(r.val)]
    /\ UNCHANGED <<ntInstance, ntHostTypes, ntGiven>>
    /\ UNCHANGED ntOthers

\* BindNode(name)
NtBindNode ==
    /\ NtIdle
    /\ \E name \in BindNames :
        LET r == BindNode(ntTypes, ntNextClass, ntHostTypes, name)
        IN  /\ r.nextClass <= MaxClasses + 1
            /\ ntTypes' = r.types
            /\ ntNextClass' = r.nextClass
            /\ ntLast' = [call |-> NtCall("BindNode", name), cls |-> PyNone,
                          outcome |-> r.outcome]
    /\ UNCHANGED <<ntInstance, ntHostTypes, ntGiven>>
    /\ UNCHANGED ntOthers

\* a plug-in registers or removes its node type
NtHostTypesChange ==
    /\ NtIdle
    /\ ntHostTypes' = IF "myPlugin" \in ntHostTypes
                      THEN ntHostTypes \ {"myPlugin"}
                      ELSE ntHostTypes \cup {"myPlugin"}
    /\ UNCHANGED <<ntInstance, ntTypes, ntNextClass, ntLast, ntGiven>>
    /\ UNCHANGED ntOthers

NtNext ==
    \/ NtConstruct
    \/ NtRegisterClass
    \/ NtGetTypeClass
    \/ NtGetattribute
    \/ NtBindNode
    \/ NtHostTypesChange
    \/ NtDone

(***************************************************************************)
(* The animation clip panel: AnimClipsListWidget and its AnimClipWidget     *)
(* rows.  The export node (fbx_export_node.FbxExportNode), the exporter     *)
(* widget and pyqt.clear_layout are outside the three source files; they    *)
(* are modelled from their use in the panel.                                *)
(***************************************************************************)
Joints == {"jA"}
MaxClips == 2
MaxEdits == 2

DigitChars == "0123456789"

\* the value of one digit character
DigitValue(c) == (CHOOSE i \in 1..10 : SubSeq(DigitChars, i, i) = c) - 1

RECURSIVE DigitsValue(_)
DigitsValue(text) ==
    IF Len(text) = 0 THEN 0
    ELSE 10 * DigitsValue(SubSeq(text, 1, Len(text) - 1)) + DigitValue(SubSeq(text, Len(text), Len(text)))

\* int(text): the number, or ValueError for a text that is not a decimal number
int(text) ==
    IF AllDigits(text) THEN Return(PyNum(DigitsValue(text)))
    ELSE Raise("ValueError", <<"invalid literal for int() with base 10">>)

\* str(n) for a number that is not negative
RECURSIVE str(_)
str(n) ==
    IF n < 10 THEN SubSeq(DigitChars, n + 1, n + 1)
    ELSE str(n \div 10) \o SubSeq(DigitChars, (n % 10) + 1, (n % 10) + 1)

\* FbxExportNode.ANIM_CLIP_DATA, the fields the panel reads and writes
ANIM_CLIP_DATA ==
    [title |-> "Untitled", enabled |-> TRUE, start_frame |-> 0, end_frame |-> 0, animLayer |-> ""]

\* the place of the first record with that title in a list of records, or 0
ClipIndex(clips, name) ==
    LET at == {i \in 1..Len(clips) : clips[i].title = name}
    IN  IF at = {} THEN 0 ELSE CHOOSE i \in at : \A j \in at : i <= j

\* export_node.get_animation_clips(root_joint)
get_animation_clips(stored, root_joint) ==
    IF root_joint \in DOMAIN stored THEN stored[root_joint] ELSE <<>>

\* export_node.update_animation_clip(root_joint, clip_name, anim_clip_data)
update_animation_clip(stored, root_joint, clip_name, anim_clip_data) ==
    LET clips == get_animation_clips(stored, root_joint)
        i == ClipIndex(clips, clip_name)
    IN  IF i = 0 THEN stored
        ELSE [stored EXCEPT ![root_joint] = [clips EXCEPT ![i] = anim_clip_data]]

\* export_node.delete_animation_clip(root_joint, clip_name)
delete_animation_clip(stored, root_joint, clip_name) ==
    LET clips == get_animation_clips(stored, root_joint)
        i == ClipIndex(clips, clip_name)
    IN  IF i = 0 THEN stored
        ELSE [stored EXCEPT ![root_joint] =
                 SubSeq(clips, 1, i - 1) \o SubSeq(clips, i + 1, Len(clips))]

\* export_node.delete_all_animation_clips()
delete_all_animation_clips(stored) == [j \in DOMAIN stored |-> <<>>]

\* the title add_animation_clip gives the new record: the first one not in use
FreshTitle(clips) ==
    LET used == {clips[i].title : i \in 1..Len(clips)}
        free == {k \in 0..Len(clips) :
                    (IF k = 0 THEN "Untitled" ELSE "Untitled" \o str(k)) \notin used}
        k == CHOOSE k \in free : \A l \in free : k <= l
    IN  IF k = 0 THEN "Untitled" ELSE "Untitled" \o str(k)

\* export_node.add_animation_clip(root_joint): the new title and the records after it
add_animation_clip(stored, root_joint) ==
    LET clips == get_animation_clips(stored, root_joint)
        name == FreshTitle(clips)
    IN  IF root_joint \notin DOMAIN stored THEN [name |-> "", stored |-> stored]
        ELSE [name |-> name,
              stored |-> [stored EXCEPT ![root_joint] =
                             Append(clips, [ANIM_CLIP_DATA EXCEPT !.title = name])]]

\* pyqt.clear_layout(layout)
clear_layout(rows) == <<>>

\* AnimClipWidget._clear()
AnimClipWidget_clear(row) ==
    [row EXCEPT !._clip_name_lineedit = "Untitled", !._start_frame_box = "",
                !._end_frame_box = "", !._export_checkbox = FALSE]

\* AnimClipWidget.refresh(): the row after it
AnimClipWidget_refresh(row, exporter, root, node, stored) ==
    LET clips == get_animation_clips(stored, root)
        i == ClipIndex(clips, row._clip_name)
    IN  IF ~(node /\ exporter) THEN AnimClipWidget_clear(row)
        ELSE IF i = 0
        THEN [row EXCEPT !._clip_name_lineedit = "Untitled", !._start_frame_box = "",
                         !._end_frame_box = "", !._export_checkbox = TRUE]
        ELSE [row EXCEPT !._clip_name_lineedit = clips[i].title,
                         !._start_frame_box = str(clips[i].start_frame),
                         !._end_frame_box = str(clips[i].end_frame),
                         !._export_checkbox = clips[i].enabled]

\* AnimClipWidget(clip_name, parent): the row __init__ builds
AnimClipWidget__init__(clip_name, exporter, root, node, stored) ==
    AnimClipWidget_refresh(
        [_clip_name |-> clip_name, _previous_name |-> clip_name, _clip_name_lineedit |-> "",
         _start_frame_box |-> "", _end_frame_box |-> "", _export_checkbox |-> TRUE],
        exporter, root, node, stored)

\* AnimClipWidget._on_update_anim_clip(): outcome, the row and the records after it
_on_update_anim_clip(row, exporter, root, node, stored) ==
    LET start == int(row._start_frame_box)
        end == int(row._end_frame_box)
        data == [ANIM_CLIP_DATA EXCEPT !.title = row._clip_name_lineedit,
                                       !.enabled = row._export_checkbox,
                                       !.start_frame = start.val.n,
                                       !.end_frame = end.val.n,
                                       !.animLayer = ""]
    IN  IF ~exporter \/ root = "" \/ ~node
        THEN [outcome |-> Return(PyNone), row |-> row, stored |-> stored]
        ELSE IF start.kind = "raise" THEN [outcome |-> start, row |-> row, stored |-> stored]
        ELSE IF end.kind = "raise" THEN [outcome |-> end, row |-> row, stored |-> stored]
        ELSE [outcome |-> Return(PyNone),
              row |-> [row EXCEPT !._previous_name = data.title],
              stored |-> update_animation_clip(stored, root, row._previous_name, data)]

\* a widget of the row is given a value: nothing happens when it has that
\* value already; otherwise the changed signal runs _on_update_anim_clip,
\* unless the signals of the widget are blocked.  st is the row, the records
\* and the number of update_animation_clip calls so far.
setWidgetValue(st, field, value, blocked, exporter, root, node) ==
    LET row == [st.row EXCEPT ![field] = value]
        r == _on_update_anim_clip(row, exporter, root, node, st.stored)
        called == exporter /\ root # "" /\ node /\ r.outcome.kind = "return"
    IN  IF st.row[field] = value THEN st
        ELSE IF blocked THEN [st EXCEPT !.row = row]
        ELSE [row |-> r.row, stored |-> r.stored,
              updates |-> st.updates + (IF called THEN 1 ELSE 0)]

\* the four widgets set one after the other, as refresh and _clear set them
setRowWidgets(row, values, blocked, exporter, root, node, stored) ==
    LET s0 == [row |-> row, stored |-> stored, updates |-> 0]
        s1 == setWidgetValue(s0, "_clip_name_lineedit", values[1], blocked, exporter, root, node)
        s2 == setWidgetValue(s1, "_start_frame_box", values[2], blocked, exporter, root, node)
        s3 == setWidgetValue(s2, "_end_frame_box", values[3], blocked, exporter, root, node)
    IN  setWidgetValue(s3, "_export_checkbox", values[4], blocked, exporter, root, node)

\* refresh with the signals left unblocked where it sets the record's values
refreshWithSignals_Unblocked(row, exporter, root, node, stored) ==
    LET shown == AnimClipWidget_refresh(row, exporter, root, node, stored)
    IN  setRowWidgets(row, <<shown._clip_name_lineedit, shown._start_frame_box,
                             shown._end_frame_box, shown._export_checkbox>>,
                      FALSE, exporter, root, node, stored)

\* AnimClipWidget.refresh() with the signals of the widgets it sets: _clear
\* sets them unblocked, the other branch inside pyqt.block_signals
refreshWithSignals(row, exporter, root, node, stored) ==
    IF ~(node /\ exporter)
    THEN setRowWidgets(row, <<"Untitled", "", "", FALSE>>, FALSE, exporter, root, node, stored)
    ELSE LET shown == AnimClipWidget_refresh(row, exporter, root, node, stored)
         IN  setRowWidgets(row, <<shown._clip_name_lineedit, shown._start_frame_box,
                                  shown._end_frame_box, shown._export_checkbox>>,
                           TRUE, exporter, root, node, stored)

\* the row as create_layout leaves it, before __init__ runs refresh
CreatedRow(clip_name) ==
    [_clip_name |-> clip_name, _previous_name |-> clip_name, _clip_name_lineedit |-> "",
     _start_frame_box |-> "", _end_frame_box |-> "", _export_checkbox |-> TRUE]

\* a row for every record, the ones without a title included
RECURSIVE RowsOfClips_EveryRecord(_, _, _, _, _)
RowsOfClips_EveryRecord(clips, exporter, root, node, stored) ==
    IF clips = <<>> THEN <<>>
    ELSE <<AnimClipWidget__init__(Head(clips).title, exporter, root, node, stored)>>
         \o RowsOfClips_EveryRecord(Tail(clips), exporter, root, node, stored)

\* the rows refresh adds for the records of the root joint, in order
RECURSIVE RowsOfClips(_, _, _, _, _)
RowsOfClips(clips, exporter, root, node, stored) ==
    IF clips = <<>> THEN <<>>
    ELSE (IF Head(clips).title = "" THEN <<>>
          ELSE <<AnimClipWidget__init__(Head(clips).title, exporter, root, node, stored)>>)
         \o RowsOfClips(Tail(clips), exporter, root, node, stored)

\* the layout not cleared: the new rows added after the ones shown
AnimClipsListWidget_refresh_NoClear(rows, listRoot, exporter, root, node, stored) ==
    IF ~exporter THEN [rows |-> rows, listRoot |-> listRoot]
    ELSE IF root = "" \/ ~node THEN [rows |-> rows, listRoot |-> root]
    ELSE [rows |-> rows \o RowsOfClips(get_animation_clips(stored, root),
                                       exporter, root, node, stored),
          listRoot |-> root]

\* AnimClipsListWidget.refresh(): the rows and the remembered root joint after it
AnimClipsListWidget_refresh(rows, listRoot, exporter, root, node, stored) ==
    LET cleared == clear_layout(rows)
    IN  IF ~exporter THEN [rows |-> cleared, listRoot |-> listRoot]
        ELSE IF root = "" \/ ~node THEN [rows |-> cleared, listRoot |-> root]
        ELSE [rows |-> cleared \o RowsOfClips(get_animation_clips(stored, root),
                                              exporter, root, node, stored),
              listRoot |-> root]

TitleTexts == {"", "Run", "Untitled"}
StartTexts == {"", "5"}
EndTexts == {"", "12"}

NoClips == [j \in Joints |-> <<>>]

NoRow == [_clip_name |-> "", _previous_name |-> "", _clip_name_lineedit |-> "",
          _start_frame_box |-> "", _end_frame_box |-> "", _export_checkbox |-> FALSE]

\* what clipLast keeps of an operation: its name, the row it was clicked on as
\* it was before, the records before, and the outcome
ClipOperation(op, i, outcome) ==
    [op |-> op, row |-> i, clicked |-> IF i = 0 THEN NoRow ELSE clipRows[i],
     before |-> clipStored, outcome |-> outcome]

ClipInit ==
    /\ clipExporter = TRUE
    /\ clipListRoot = ""
    /\ clipRows = <<>>
    /\ clipRoot = ""
    /\ clipNode = FALSE
    /\ clipStored = NoClips
    /\ clipEdits = 0
    /\ clipLast = [op |-> "none", row |-> 0, clicked |-> NoRow, before |-> NoClips,
                   outcome |-> Return(PyNone)]

\* AnimClipsListWidget(parent): the panel is built, in a window or without a parent
ClipPanelConstruct ==
    /\ \E parent \in BOOLEAN :
        /\ clipExporter' = parent
        /\ clipListRoot' = ""
        /\ clipRows' = <<>>
        /\ clipLast' = ClipOperation("AnimClipsListWidget", 0, Return(PyNone))
    /\ UNCHANGED <<clipRoot, clipNode, clipStored, clipEdits>>
    /\ UNCHANGED clipOthers

\* the user picks another root joint in the exporter, or none
ClipRootJointChanges ==
    /\ \E j \in Joints \cup {""} :
        /\ j # clipRoot
        /\ clipRoot' = j
    /\ clipLast' = ClipOperation("root_joint", 0, Return(PyNone))
    /\ UNCHANGED <<clipExporter, clipListRoot, clipRows, clipNode, clipStored, clipEdits>>
    /\ UNCHANGED clipOthers

\* the export node is deleted from the scene, with its records
ClipNodeDeleted ==
    /\ clipNode
    /\ clipNode' = FALSE
    /\ clipStored' = NoClips
    /\ clipLast' = ClipOperation("node_deleted", 0, Return(PyNone))
    /\ UNCHANGED <<clipExporter, clipListRoot, clipRows, clipRoot, clipEdits>>
    /\ UNCHANGED clipOthers

\* AnimClipsListWidget.refresh()
ClipListRefresh ==
    /\ LET r == AnimClipsListWidget_refresh(clipRows, clipListRoot, clipExporter, clipRoot,
                                            clipNode, clipStored)
       IN  /\ clipRows' = r.rows
           /\ clipListRoot' = r.listRoot
           /\ clipLast' = ClipOperation("refresh", 0, Return(PyNone))
    /\ UNCHANGED <<clipExporter, clipRoot, clipNode, clipStored, clipEdits>>
    /\ UNCHANGED clipOthers

\* AnimClipsListWidget._on_add_animation_clip_button_clicked()
ClipAddButtonClicked ==
    /\ Len(get_animation_clips(clipStored, clipListRoot)) < MaxClips
    /\ Len(clipRows) < MaxClips
    /\ IF clipListRoot = ""
       THEN /\ clipLast' = ClipOperation("add", 0, Return(PyNone))
            /\ UNCHANGED <<clipRows, clipNode, clipStored>>
       ELSE /\ clipExporter
            /\ LET added == add_animation_clip(clipStored, clipListRoot)
               IN  /\ clipNode' = TRUE
                   /\ clipStored' = added.stored
                   /\ clipRows' = IF added.name = "" THEN clipRows
                                  ELSE Append(clipRows,
                                           AnimClipWidget__init__(added.name, clipExporter,
                                               clipRoot, TRUE, added.stored))
                   /\ clipLast' = ClipOperation("add", 0, Return(PyNone))
    /\ UNCHANGED <<clipExporter, clipListRoot, clipRoot, clipEdits>>
    /\ UNCHANGED clipOthers

\* AnimClipsListWidget._on_delete_all_animation_clips_button_clicked()
ClipDeleteAllButtonClicked ==
    /\ IF clipListRoot = "" \/ ~clipNode
       THEN /\ UNCHANGED <<clipRows, clipListRoot, clipStored>>
       ELSE LET cleared == delete_all_animation_clips(clipStored)
                r == AnimClipsListWidget_refresh(clipRows, clipListRoot, clipExporter,
                                                 clipRoot, clipNode, cleared)
            IN  /\ clipStored' = cleared
                /\ clipRows' = r.rows
                /\ clipListRoot' = r.listRoot
    /\ clipLast' = ClipOperation("delete_all", 0, Return(PyNone))
    /\ UNCHANGED <<clipExporter, clipRoot, clipNode, clipEdits>>
    /\ UNCHANGED clipOthers

\* the user edits one field of a row; its signal runs _on_update_anim_clip
ClipRowEdited ==
    /\ clipEdits < MaxEdits
    /\ clipEdits' = clipEdits + 1
    /\ \E i \in 1..Len(clipRows) :
       \E edited \in
            {[clipRows[i] EXCEPT !._clip_name_lineedit = t] : t \in TitleTexts} \cup
            {[clipRows[i] EXCEPT !._start_frame_box = t] : t \in StartTexts} \cup
            {[clipRows[i] EXCEPT !._end_frame_box = t] : t \in EndTexts} \cup
            {[clipRows[i] EXCEPT !._export_checkbox = ~clipRows[i]._export_checkbox]} :
        /\ edited # clipRows[i]
        /\ LET r == _on_update_anim_clip(edited, clipExporter, clipRoot, clipNode, clipStored)
           IN  /\ clipRows' = [clipRows EXCEPT ![i] = r.row]
               /\ clipStored' = r.stored
               /\ clipLast' = ClipOperation("edit", i, r.outcome)
    /\ UNCHANGED <<clipExporter, clipListRoot, clipRoot, clipNode>>
    /\ UNCHANGED clipOthers

\* AnimClipWidget.refresh() called on a row of the panel
ClipRowRefresh ==
    /\ \E i \in 1..Len(clipRows) :
        LET r == refreshWithSignals(clipRows[i], clipExporter, clipRoot, clipNode, clipStored)
        IN  /\ clipRows' = [clipRows EXCEPT ![i] = r.row]
            /\ clipStored' = r.stored
            /\ clipLast' = ClipOperation("row_refresh", i, Return(PyNum(r.updates)))
    /\ UNCHANGED <<clipExporter, clipListRoot, clipRoot, clipNode, clipEdits>>
    /\ UNCHANGED clipOthers

\* AnimClipWidget._on_delete_button_clicked()
ClipRowDeleteButtonClicked ==
    /\ \E i \in 1..Len(clipRows) :
        /\ IF ~clipNode \/ ~clipExporter \/ clipRoot = ""
           THEN UNCHANGED <<clipRows, clipStored>>
           ELSE /\ clipStored' = delete_animation_clip(clipStored, clipRoot,
                                                       clipRows[i]._clip_name)
                /\ clipRows' = SubSeq(clipRows, 1, i - 1) \o
                               SubSeq(clipRows, i + 1, Len(clipRows))
        /\ clipLast' = ClipOperation("delete", i, Return(PyNone))
    /\ UNCHANGED <<clipExporter, clipListRoot, clipRoot, clipNode, clipEdits>>
    /\ UNCHANGED clipOthers

\* AnimClipWidget._on_delete_anim_clip(), the context menu's Delete: the row
\* has no _root_joint attribute
ClipRowContextDelete ==
    /\ \E i \in 1..Len(clipRows) :
        clipLast' = ClipOperation("context_delete", i,
                                  IF clipNode THEN Raise("AttributeError", <<"_root_joint">>)
                                  ELSE Return(PyNone))
    /\ UNCHANGED <<clipExporter, clipListRoot, clipRows, clipRoot, clipNode, clipStored, clipEdits>>
    /\ UNCHANGED clipOthers

ClipNext ==
    \/ ClipPanelConstruct
    \/ ClipRootJointChanges
    \/ ClipNodeDeleted
    \/ ClipListRefresh
    \/ ClipAddButtonClicked
    \/ ClipDeleteAllButtonClicked
    \/ ClipRowEdited
    \/ ClipRowRefresh
    \/ ClipRowDeleteButtonClicked
    \/ ClipRowContextDelete

(***************************************************************************)
(* ObjectSet: members() and union, over the object sets of    *)
(* the scene.                                                              *)
(***************************************************************************)
SetElements == {"a", "b", "c"}
SceneSets == {"s1", "s2"}
MaxUnions == 2

\* the members of a Python set as a list, in the order the host gives them
RECURSIVE SetToSeq(_)
SetToSeq(S) ==
    IF S = {} THEN <<>>
    ELSE LET x == CHOOSE x \in S : TRUE IN <<x>> \o SetToSeq(S \ {x})

\* cmds.sets(name, q=True): the members, None for a set without members
HostSetsQuery(scene, name) ==
    IF scene[name] = {} THEN PyNone ELSE PyList([i \in 1..Len(SetToSeq(scene[name])) |->
                                                    PyStr(SetToSeq(scene[name])[i])])

\* cmds.sets(name="unionSet", empty=True): the name the host gives the new set
HostNewSetName(scene) ==
    LET free == {k \in 0..MaxUnions + 1 :
                    (IF k = 0 THEN "unionSet" ELSE "unionSet" \o str(k)) \notin DOMAIN scene}
        k == CHOOSE k \in free : \A l \in free : k <= l
    IN  IF k = 0 THEN "unionSet" ELSE "unionSet" \o str(k)

\* cmds.sets(items, forceElement=name): the scene after it; the new set is in
\* no partition, so no other set loses a member
HostSetsForceElement(scene, items, name) ==
    [scene EXCEPT ![name] = scene[name] \cup items]

\* the handles union can be given: ObjectSet instances, a handle of another
\* class, and a name
ObjectSetHandle(name) == [py |-> "node", cls |-> "ObjectSet", obj |-> name]
isinstance_ObjectSet(v) == v.py = "node" /\ v.cls = "ObjectSet"

\* ObjectSet.members()
members(scene, self) ==
    LET res == OrEmptyList(HostSetsQuery(scene, self.obj))
    IN  {res.items[i].s : i \in 1..Len(res.items)}

\* members gathered over the arguments, up to the first that is not an ObjectSet
RECURSIVE unionGather(_, _, _)
unionGather(scene, gathered, other_sets) ==
    IF other_sets = <<>> THEN [raised |-> FALSE, members |-> gathered]
    ELSE IF isinstance_ObjectSet(Head(other_sets))
    THEN unionGather(scene, gathered \cup members(scene, Head(other_sets)), Tail(other_sets))
    ELSE [raised |-> TRUE, members |-> gathered]

\* the new set created before the arguments are looked at
union_CreateFirst(scene, self, other_sets) ==
    LET g == unionGather(scene, members(scene, self), other_sets)
        union_set_name == HostNewSetName(scene)
        created == [n \in (DOMAIN scene) \cup {union_set_name} |->
                       IF n = union_set_name THEN {} ELSE scene[n]]
    IN  IF g.raised
        THEN [outcome |-> Raise("TypeError", <<"Expected ObjectSet">>), scene |-> created]
        ELSE [outcome |-> Return(ObjectSetHandle(union_set_name)),
              scene |-> HostSetsForceElement(created, g.members, union_set_name)]

\* ObjectSet.union: the outcome and the scene after it
union(scene, self, other_sets) ==
    LET g == unionGather(scene, members(scene, self), other_sets)
        union_set_name == HostNewSetName(scene)
        created == [n \in (DOMAIN scene) \cup {union_set_name} |->
                       IF n = union_set_name THEN {} ELSE scene[n]]
    IN  IF g.raised
        THEN [outcome |-> Raise("TypeError", <<"Expected ObjectSet">>), scene |-> scene]
        ELSE [outcome |-> Return(ObjectSetHandle(union_set_name)),
              scene |-> HostSetsForceElement(created, g.members, union_set_name)]

\* what a caller can pass to union
UnionArguments ==
    {ObjectSetHandle(n) : n \in SceneSets \cup {"unionSet"}} \cup
    {[py |-> "node", cls |-> "_Node", obj |-> "s1"], PyStr("s2")}
UnionArgumentLists ==
    {<<>>} \cup {<<x>> : x \in UnionArguments} \cup
    {<<x, y>> : x \in UnionArguments, y \in UnionArguments}

\* a handle of an object set that exists
LiveHandle(v) == isinstance_ObjectSet(v) => v.obj \in DOMAIN setScene

NoSetCall == [op |-> "none", self |-> PyNone, other_sets |-> <<>>,
              before |-> << >>, outcome |-> Return(PyNone)]

SetInit ==
    /\ setScene = [n \in SceneSets |-> IF n = "s1" THEN {"a"} ELSE {}]
    /\ setLast = NoSetCall

\* no ObjectSet call is in progress
SetIdle == setLast = NoSetCall

\* the caller has taken the result of the call
SetDone ==
    /\ ~SetIdle
    /\ setLast' = NoSetCall
    /\ UNCHANGED setScene
    /\ UNCHANGED setOthers

\* the user adds an object to a set of the scene or removes one
SetMembersChange ==
    /\ SetIdle
    /\ \E n \in SceneSets, x \in SetElements :
        setScene' = [setScene EXCEPT ![n] = IF x \in @ THEN @ \ {x} ELSE @ \cup {x}]
    /\ UNCHANGED setLast
    /\ UNCHANGED setOthers

\* self.members()
SetMembers ==
    /\ SetIdle
    /\ \E n \in DOMAIN setScene :
        setLast' = [op |-> "members", self |-> ObjectSetHandle(n), other_sets |-> <<>>,
                    before |-> setScene,
                    outcome |-> Return(PyList(SetToSeq(members(setScene, ObjectSetHandle(n)))))]
    /\ UNCHANGED setScene
    /\ UNCHANGED setOthers

\* self.union
SetUnion ==
    /\ SetIdle
    /\ Cardinality(DOMAIN setScene) < Cardinality(SceneSets) + MaxUnions
    /\ \E n \in DOMAIN setScene, other_sets \in UnionArgumentLists :
        /\ \A i \in 1..Len(other_sets) : LiveHandle(other_sets[i])
        /\ LET r == union(setScene, ObjectSetHandle(n), other_sets)
           IN  /\ setScene' = r.scene
               /\ setLast' = [op |-> "union", self |-> ObjectSetHandle(n),
                              other_sets |-> other_sets, before |-> setScene,
                              outcome |-> r.outcome]
    /\ UNCHANGED setOthers

SetNext ==
    \/ SetMembersChange
    \/ SetMembers
    \/ SetUnion
    \/ SetDone

(***************************************************************************)
(* cmd.disconnectAttr over the host's connection graph.                    *)
(***************************************************************************)
ConPlugs == {"n.a", "n.b", "m.a", "m.b"}
ConNodes == {"n", "m", "k"}

\* the plug is the named plug, or a plug of the named node
PlugOf(plug, x) == plug = x \/ StartsWith(plug, x \o ".")

\* cmds.listConnections(x, s=.., d=.., p=True, c=True): the flat list of
\* (plug of x, plug at the other end) or None; s lists the connections that
\* end in x and d the connections that start in it
HostListConnections(graph, x, s, d) ==
    LET into == IF s THEN {c \in graph : PlugOf(c[2], x)} ELSE {}
        outof == IF d THEN {c \in graph : PlugOf(c[1], x)} ELSE {}
        flatInto == SetToSeq(into)
        flatOut == SetToSeq(outof)
        flat == [i \in 1..(2 * Len(flatInto)) |->
                    IF i % 2 = 1 THEN flatInto[(i + 1) \div 2][2] ELSE flatInto[i \div 2][1]] \o
                [i \in 1..(2 * Len(flatOut)) |->
                    IF i % 2 = 1 THEN flatOut[(i + 1) \div 2][1] ELSE flatOut[i \div 2][2]]
    IN  IF flat = <<>> THEN PyNone ELSE PyList([i \in 1..Len(flat) |-> PyStr(flat[i])])

\* cmds.disconnectAttr(source, destination): the graph after it, or the failure
HostDisconnectAttr(graph, source, destination) ==
    IF <<source, destination>> \in graph
    THEN [kind |-> "ok", graph |-> graph \ {<<source, destination>>}]
    ELSE [kind |-> "fail", graph |-> graph]

\* for i in range(0, len(cons), 2): cmds.disconnectAttr(first, second); swap
\* says that the host is given cons[i + 1] before cons[i]
RECURSIVE disconnectPairs(_, _, _, _)
disconnectPairs(graph, cons, swap, calls) ==
    IF Len(cons) < 2 THEN [outcome |-> Return(PyNone), graph |-> graph, calls |-> calls]
    ELSE LET source == IF swap THEN cons[2].s ELSE cons[1].s
             destination == IF swap THEN cons[1].s ELSE cons[2].s
             r == HostDisconnectAttr(graph, source, destination)
         IN  IF r.kind = "fail"
             THEN [outcome |-> Raise("RuntimeError", <<"There is no connection">>),
                   graph |-> graph, calls |-> Append(calls, <<source, destination>>)]
             ELSE disconnectPairs(r.graph, SubSeq(cons, 3, Len(cons)), swap,
                                  Append(calls, <<source, destination>>))

\* the connections that end in x given to the host as they are listed
disconnectSourceSide_AsListed(graph, cons) == disconnectPairs(graph, cons, FALSE, <<>>)

\* the first loop: the connections that end in x
disconnectSourceSide(graph, cons) == disconnectPairs(graph, cons, TRUE, <<>>)

\* cmd.disconnectAttr(*args): the outcome, the graph after it and the host's
\* disconnectAttr calls in order
disconnectAttr(graph, args) ==
    LET names == _obj_to_name(PyTuple(args)).items
        cons1 == OrEmptyList(HostListConnections(graph, names[1].s, TRUE, FALSE))
        first == disconnectSourceSide(graph, cons1.items)
        cons2 == OrEmptyList(HostListConnections(first.graph, names[1].s, FALSE, TRUE))
        second == disconnectPairs(first.graph, cons2.items, FALSE, first.calls)
        direct == disconnectPairs(graph, names, FALSE, <<>>)
    IN  IF Len(names) = 1
        THEN (IF first.outcome.kind = "raise" THEN first ELSE second)
        ELSE direct

\* the node of a plug: the name before the first "."
NodeOfPlug(plug) ==
    LET dots == {i \in 1..Len(plug) : SubSeq(plug, i, i) = "."}
    IN  IF dots = {} THEN plug
        ELSE SubSeq(plug, 1, (CHOOSE i \in dots : \A j \in dots : i <= j) - 1)

\* cmds.listConnections(x, **kwargs) for the flags source, destination,
\* plugs and connections: the ends away from x of the connections that end
\* in x (source) and of those that start in x (destination), as plugs or as
\* nodes; with connections each is preceded by the end at x; None for none
HostListConnectionsKw(graph, x, kwargs) ==
    LET flag(name, default) == IF name \in DOMAIN kwargs THEN Truthy(kwargs[name]) ELSE default
        side(plug) == IF flag("plugs", FALSE) THEN plug ELSE NodeOfPlug(plug)
        into == SetToSeq(IF flag("source", TRUE) THEN {c \in graph : PlugOf(c[2], x)} ELSE {})
        outof == SetToSeq(IF flag("destination", TRUE) THEN {c \in graph : PlugOf(c[1], x)} ELSE {})
        pairs == [i \in 1..Len(into) |-> <<side(into[i][2]), side(into[i][1])>>] \o
                 [i \in 1..Len(outof) |-> <<side(outof[i][1]), side(outof[i][2])>>]
        flat == IF flag("connections", FALSE)
                THEN [i \in 1..(2 * Len(pairs)) |->
                         IF i % 2 = 1 THEN pairs[(i + 1) \div 2][1] ELSE pairs[i \div 2][2]]
                ELSE [i \in 1..Len(pairs) |-> pairs[i][2]]
    IN  IF flat = <<>> THEN HostOk(PyNone)
        ELSE HostOk(PyList([i \in 1..Len(flat) |-> PyStr(flat[i])]))

\* the keyword arguments a caller gives listConnections
ListConnectionsKwargs ==
    {[k \in K |-> PyBool(k \in {"connections", "plugs"})] :
        K \in SUBSET {"connections", "plugs", "source", "destination"}}

DisconnectArguments ==
    {<<PyStr(x)>> : x \in ConNodes \cup ConPlugs} \cup {<<PyNode("n")>>} \cup
    {<<PyStr(a), PyStr(b)>> : a \in {"n.a", "m.a"}, b \in {"n.b", "m.b"}}

NoConCall == [op |-> "none", args |-> <<>>, kwargs |-> NoKw, sourceFirst |-> FALSE,
              before |-> {}, calls |-> <<>>, outcome |-> Return(PyNone)]

ConInit ==
    /\ conGraph = {}
    /\ conLast = NoConCall

\* no disconnectAttr call is in progress
ConIdle == conLast = NoConCall

\* the caller has taken the result of the call
ConDone ==
    /\ ~ConIdle
    /\ conLast' = NoConCall
    /\ UNCHANGED conGraph
    /\ UNCHANGED conOthers

\* the user connects two plugs; a plug has one incoming connection at most
ConConnect ==
    /\ ConIdle
    /\ \E source \in ConPlugs, destination \in ConPlugs :
        /\ source # destination
        /\ ~ \E c \in conGraph : c[2] = destination
        /\ conGraph' = conGraph \cup {<<source, destination>>}
    /\ UNCHANGED conLast
    /\ UNCHANGED conOthers

\* cmd.disconnectAttr(*args)
ConDisconnectAttr ==
    /\ ConIdle
    /\ \E args \in DisconnectArguments :
        LET r == disconnectAttr(conGraph, args)
        IN  /\ conGraph' = r.graph
            /\ conLast' = [op |-> "disconnectAttr", args |-> args, kwargs |-> NoKw,
                           sourceFirst |-> FALSE, before |-> conGraph,
                           calls |-> r.calls, outcome |-> r.outcome]
    /\ UNCHANGED conOthers

\* cmd.listConnections(x, sourceFirst=..., **kwargs) answered by the host
\* from the connection graph
ConListConnections ==
    /\ ConIdle
    /\ \E x \in ConNodes \cup ConPlugs, sourceFirst \in BOOLEAN, kwargs \in ListConnectionsKwargs :
        LET nkw == _obj_to_name_kw(kwargs)
            reply1 == HostListConnectionsKw(conGraph, x,
                          IF sourceFirst THEN listConnectionsSourceKwargs(nkw) ELSE nkw)
            reply2 == HostListConnectionsKw(conGraph, x, listConnectionsDestinationKwargs(nkw))
            r == listConnections(PyTuple(<<PyStr(x)>>), PyBool(sourceFirst), kwargs,
                                 reply1, reply2)
        IN  conLast' = [op |-> "listConnections", args |-> <<PyStr(x)>>, kwargs |-> kwargs,
                        sourceFirst |-> sourceFirst, before |-> conGraph,
                        calls |-> <<>>, outcome |-> r.outcome]
    /\ UNCHANGED conGraph
    /\ UNCHANGED conOthers

ConNext ==
    \/ ConConnect
    \/ ConDisconnectAttr
    \/ ConListConnections
    \/ ConDone

(***************************************************************************)
(* node.py: getParent of a DAG node.  A node is known by its full path     *)
(* name, and a handle on it is PyNode(full path name).                     *)
(***************************************************************************)
DagNames == {"a", "b"}
MaxDepth == 3
MaxDagNodes == 4

\* str.split(sep) for a separator of one character
RECURSIVE split(_, _)
split(s, sep) ==
    LET hits == {i \in 1..Len(s) : SubSeq(s, i, i) = sep}
    IN  IF hits = {} THEN <<s>>
        ELSE LET i == CHOOSE h \in hits : \A j \in hits : h <= j
             IN  <<SubSeq(s, 1, i - 1)>> \o split(SubSeq(s, i + 1, Len(s)), sep)

\* sep.join(parts)
RECURSIVE join(_, _)
join(parts, sep) ==
    IF parts = <<>> THEN ""
    ELSE IF Len(parts) = 1 THEN parts[1]
    ELSE parts[1] \o sep \o join(Tail(parts), sep)

\* the host's DAG: q is the parent of p
DagIsParent(q, p) == \E nm \in DagNames : p = q \o "|" \o nm

\* cmds.listRelatives(node, p=True): the parent in a list, None for a root
HostListRelativesParent(scene, node) ==
    LET parents == {q \in scene : DagIsParent(q, node)}
    IN  IF parents = {} THEN PyNone ELSE PyList(<<PyStr(CHOOSE q \in parents : TRUE)>>)

\* cmd.listRelatives(node, p=True): the wrapped command, its None made an
\* empty list and its names made handles
cmdListRelativesParent(scene, node) ==
    LET res == listNoneToEmpty("listRelatives", HostListRelativesParent(scene, node))
    IN  [i \in 1..Len(res.items) |->
            IF res.items[i].s \in scene THEN PyNode(res.items[i].s) ELSE res.items[i]]

\* BindNode(name) of an object of the DAG
DagBindNode(scene, name) ==
    IF name \notin scene THEN Raise("MayaNodeError", <<"No such node">>)
    ELSE Return(PyNode(name))

\* a negative count taken from the end of the path, as a positive one is
_getParent_NegativeFromEnd(scene, node, generations) ==
    LET g == IF generations < 0 THEN -generations ELSE generations
        splt == SelectSeq(split(node, "|"), LAMBDA x : x # "")
    IN  IF g >= Len(splt) THEN Return(PyNone)
        ELSE DagBindNode(scene, "|" \o join(SubSeq(splt, 1, Len(splt) - g), "|"))

_getParent(scene, node, generations) ==
    IF generations = 1
    THEN LET res == cmdListRelativesParent(scene, node)
         IN  IF res # <<>> THEN Return(res[1]) ELSE Return(PyNone)
    ELSE LET splt == SelectSeq(split(node, "|"), LAMBDA x : x # "")
             spltlen == Len(splt)
         IN  IF generations >= 0
             THEN IF generations >= spltlen THEN Return(PyNone)
                  ELSE DagBindNode(scene, "|" \o join(SubSeq(splt, 1, spltlen - generations), "|"))
             ELSE IF -generations > spltlen THEN Return(PyNone)
                  ELSE DagBindNode(scene, "|" \o join(SubSeq(splt, 1, -generations), "|"))

Generations == (0 - MaxDepth - 1)..(MaxDepth + 1)
NoDagCall == [op |-> "none", node |-> "", generations |-> 0, outcome |-> Return(PyNone)]

DagInit ==
    /\ dagScene = {}
    /\ dagLast = NoDagCall

\* the user creates a transform, at the top of the scene or under a node
DagCreateNode ==
    /\ Cardinality(dagScene) < MaxDagNodes
    /\ \E parent \in dagScene \cup {""}, nm \in DagNames :
        /\ Len(SelectSeq(split(parent, "|"), LAMBDA x : x # "")) < MaxDepth
        /\ (parent \o "|" \o nm) \notin dagScene
        /\ dagScene' = dagScene \cup {parent \o "|" \o nm}
    /\ UNCHANGED dagLast
    /\ UNCHANGED dagOthers

\* node.getParent(generations)
DagGetParent ==
    /\ \E node \in dagScene, generations \in Generations :
        dagLast' = [op |-> "getParent", node |-> node, generations |-> generations,
                    outcome |-> _getParent(dagScene, node, generations)]
    /\ UNCHANGED dagScene
    /\ UNCHANGED dagOthers

\* getParent(1) called on the node the last getParent(1) returned
DagGetParentOfResult ==
    /\ dagLast.op \in {"getParent", "chain"}
    /\ dagLast.op = "getParent" => dagLast.generations = 1
    /\ dagLast.outcome.kind = "return"
    /\ dagLast.outcome.val.py = "node"
    /\ dagLast' = [op |-> "chain", node |-> dagLast.node,
                   generations |-> dagLast.generations + 1,
                   outcome |-> _getParent(dagScene, dagLast.outcome.val.name, 1)]
    /\ UNCHANGED dagScene
    /\ UNCHANGED dagOthers

DagNext == DagCreateNode \/ DagGetParent \/ DagGetParentOfResult

(***************************************************************************)
(* Specifications: one for each part of the program.                       *)
(***************************************************************************)
Init == CmdInit /\ MelInit /\ NodeInit /\ NtInit /\ ClipInit /\ SetInit /\ ConInit /\ DagInit

SpecCmd == Init /\ [][CmdNext]_vars

SpecMel == Init /\ [][MelNext]_vars

SpecNode == Init /\ [][NodeNext]_vars

SpecTypes == Init /\ [][NtNext]_vars

SpecClips == Init /\ [][ClipNext]_vars

SpecSets == Init /\ [][SetNext]_vars

SpecConnections == Init /\ [][ConNext]_vars

SpecDag == Init /\ [][DagNext]_vars

ElemMatches(h, o) ==
    \/ o = h
    \/ /\ o.py \in {"node", "attr"}
       /\ (o.name = h.s \/ EndsWith(o.name, "." \o h.s))

SameListInOrder(hostItems, out) ==
    /\ out.py = "list"
    /\ Len(out.items) = Len(hostItems)
    /\ \A i \in 1..Len(hostItems) : ElemMatches(hostItems[i], out.items[i])

ListCallReturned == StartsWith(cmdCall.fn, "list") /\ cmdOutcome.kind = "return"

\* C5 (as claimed): a list command never returns None; the host's None becomes the
\* empty list and the host's list is returned with the same length, in the same
\* order, by every list command, hand-written listHistory and listConnections included.
C5_ListSameLengthEveryCall ==
    ListCallReturned =>
        /\ cmdOutcome.val # PyNone
        /\ cmdHostLog[1].reply.val = PyNone => cmdOutcome.val = PyList(<<>>)
        /\ cmdHostLog[1].reply.val.py = "list" =>
               SameListInOrder(cmdHostLog[1].reply.val.items, cmdOutcome.val)

\* listHistory called with type or exactType, listConnections with sourceFirst
ListCallFiltered ==
    \/ cmdCall.fn = "listHistory" /\ (Truthy(cmdCall.type) \/ Truthy(cmdCall.exactType))
    \/ cmdCall.fn = "listConnections" /\ Truthy(cmdCall.sourceFirst)

HistoryWanted(x) ==
    IF Truthy(cmdCall.exactType) THEN CmdNodeType(x.s) = cmdCall.exactType.s
    ELSE cmdCall.type.s \in CmdInherited(x.s)

\* C5 (amended): a list command never returns None.  Called without a filter, it
\* returns the empty list for the host's None and the host's list with the same
\* length in the same order.  listHistory with type or exactType returns, in the
\* host's order, the elements whose node type matches; listConnections with
\* sourceFirst returns one pair for every two elements of its two host lists.
C5_ListNeverNone ==
    ListCallReturned =>
        /\ cmdOutcome.val # PyNone
        /\ ~ListCallFiltered =>
            /\ cmdHostLog[1].reply.val = PyNone => cmdOutcome.val = PyList(<<>>)
            /\ cmdHostLog[1].reply.val.py = "list" =>
                   SameListInOrder(cmdHostLog[1].reply.val.items, cmdOutcome.val)
        /\ (ListCallFiltered /\ cmdCall.fn = "listHistory") =>
               SameListInOrder(
                   SelectSeq(OrEmptyList(cmdHostLog[1].reply.val).items, HistoryWanted),
                   cmdOutcome.val)
        /\ (ListCallFiltered /\ cmdCall.fn = "listConnections") =>
            /\ cmdOutcome.val.py = "list"
            /\ 2 * Len(cmdOutcome.val.items) =
                   Len(OrEmptyList(cmdHostLog[1].reply.val).items)
                   + Len(OrEmptyList(cmdHostLog[2].reply.val).items)
            /\ \A i \in 1..Len(cmdOutcome.val.items) :
                   cmdOutcome.val.items[i].py = "tuple" /\ Len(cmdOutcome.val.items[i].items) = 2

\* a wrapped list command got None from the host and returned the empty list, and
\* listHistory returned a three-element host list unfiltered
C5_Witness ==
    \/ /\ cmdCall.fn = "listRelatives"
       /\ cmdHostLog[1].reply.val = PyNone
       /\ cmdOutcome = Return(PyList(<<>>))
    \/ /\ cmdCall.fn = "listHistory"
       /\ ~ListCallFiltered
       /\ cmdOutcome = Return(PyList(<<PyNode("b"), PyStr("zz"), PyNode("a")>>))

(***************************************************************************)
(* C6: the mel proxy's cache.                                              *)
(***************************************************************************)
MelLookupStep == melLookup' # melLookup

MelCacheStep ==
    \* one proxy object, whose cache is never reset and keeps every entry
    /\ melInstance # 0 => melInstance' = melInstance
    /\ \A n \in DOMAIN melCache : n \in DOMAIN melCache' /\ melCache'[n] = melCache[n]
    \* a cached name: the identical object, and the host is not asked
    /\ (MelLookupStep /\ melLookup'.name \in DOMAIN melCache) =>
           /\ melLookup'.outcome = Return(melCache[melLookup'.name])
           /\ melLookup'.queries = <<>>
    \* a failed lookup raises AttributeError and leaves the cache as it was
    /\ (MelLookupStep /\ melLookup'.outcome.kind = "raise") =>
           /\ melLookup'.outcome.exc = "AttributeError"
           /\ melCache' = melCache
    \* the cache changes only by a lookup that found the name in the host
    /\ melCache' # melCache =>
           /\ MelLookupStep
           /\ DOMAIN melCache' = (DOMAIN melCache) \cup {melLookup'.name}
           /\ melLookup'.outcome = Return(melCache'[melLookup'.name])
           /\ \/ melLookup'.name \in melHost.cmds
              \/ EndsWith(melHost.whatIs[melLookup'.name], ".mel")

\* C6: the mel proxy is a singleton with one shared cache; the cache holds a name
\* iff an earlier lookup of it succeeded as a host command or as a procedure whose
\* whatIs answer ends in ".mel"; a cached name is answered with the identical cached
\* object without a host query; a failed lookup raises AttributeError and leaves
\* the cache unchanged.
C6_MelCache ==
    /\ [](DOMAIN melCache = melSucceeded)
    /\ [](melInstance \in {0, 1})
    /\ [][MelCacheStep]_vars

\* a command and a MEL procedure are cached, and the last lookup was answered
\* from the cache without asking the host
C6_Witness ==
    /\ DOMAIN melCache = {"ls", "myProc"}
    /\ melCache["myProc"].kind = "__wrap_mel"
    /\ melLookup.name \in DOMAIN melCache
    /\ melLookup.queries = <<>>
    /\ melLookup.outcome = Return(melCache[melLookup.name])

(***************************************************************************)
(* C2, C4: node handles.                                                   *)
(***************************************************************************)
\* C2 (as claimed): _Node.attr on any handle, for either value of checkShape,
\* returns an attribute handle or raises MayaAttributeError, never another exception.
C2_AttrReturnsOrMayaAttributeError ==
    nodeLast.op = "attr" =>
        \/ nodeLast.outcome.kind = "return" /\ nodeLast.outcome.val.py = "attr"
        \/ nodeLast.outcome.kind = "raise" /\ nodeLast.outcome.exc = "MayaAttributeError"

HandleIsDag(h) == "kDagNode" \in ObjFns(h.obj)
HandleIsTransform(h) == HandleIsDag(h) /\ "kTransform" \in ObjFns(h.obj)

\* C4: on every constructed handle, isDag() iff dagPath() is not None iff getParent,
\* getChildren and addChild are bound; the transform methods are bound iff the
\* node is a DAG node that is a transform; a non-DAG node has no transform method.
C4_CapabilitiesMatch ==
    \A v \in HandleIds :
        LET h == nodeHandles[v]
        IN  h # NoHandle =>
                /\ isDag(h) <=> HandleIsDag(h)
                /\ isDag(h) <=> dagPath(h) # PyNone
                /\ \A f \in DagMethods : f \in h.bound <=> isDag(h)
                /\ \A f \in TransformMethods : f \in h.bound <=> HandleIsTransform(h)
                /\ ~isDag(h) => h.bound \cap TransformMethods = {}

\* a handle on a DAG node that is no transform has been constructed
C4_Witness ==
    /\ nodeLast.op = "_Node"
    /\ nodeHandles["h1"] # NoHandle
    /\ nodeHandles["h1"].obj = "rootShape"
    /\ nodeHandles["h1"].bound = DagMethods

(***************************************************************************)
(* C3, C10: BindNode and the node-type registry.                           *)
(***************************************************************************)
\* the names BindNode can build a handle for
BindableNames == {o \in SceneObjects : "kDependencyNode" \in ObjFns(o)}

\* C3: BindNode(name) raises MayaNodeError when no object of that name exists
\* or the object is not a dependency node, and otherwise returns an instance
\* of the class the registry holds for the node's host type; an existing node
\* never makes it fail in any other way.
C3_BindNodeTwoOutcomes ==
    ntLast.call.op = "BindNode" =>
        IF ntLast.call.arg \in BindableNames
        THEN /\ ntLast.outcome.kind = "return"
             /\ ObjType(ntLast.call.arg) \in DOMAIN ntTypes
             /\ ntLast.outcome.val.cls = ntTypes[ObjType(ntLast.call.arg)]
        ELSE /\ ntLast.outcome.kind = "raise"
             /\ ntLast.outcome.exc = "MayaNodeError"

\* the classes a dictionary holds
ClassesOf(types) == {types[t] : t \in DOMAIN types}

\* C10: the registry is one object; getTypeClass(t) returns the class given to
\* registerClass(t, cls) when one was given; otherwise, for a type the host
\* knows, it creates one class on the first call and returns that class on
\* later calls; otherwise it returns None and leaves the registry as it was.
\* An entry is replaced only by registerClass for the same type name.
C10_Registry ==
    /\ ntInstance = 1
    /\ ntLast.call.op # "none" =>
        LET t == ntLast.call.arg
            before == ntLast.call.before
            val == ntLast.outcome.val
        IN  /\ \A u \in DOMAIN before :
                 /\ u \in DOMAIN ntTypes
                 /\ ntTypes[u] # before[u] => ntLast.call.op = "registerClass" /\ u = t
            /\ ntLast.call.op = "_NodeTypes" => ntTypes = before
            /\ ntLast.call.op = "registerClass" /\ ntLast.cls.py # "None" =>
                 ntTypes[t] = ntLast.cls
            /\ ntLast.call.op = "getTypeClass" =>
                 /\ ntLast.outcome.kind = "return"
                 /\ t \in DOMAIN ntLast.call.given => val = ntLast.call.given[t]
                 /\ t \in DOMAIN before => val = before[t] /\ ntTypes = before
                 /\ t \notin DOMAIN before /\ t \in ntLast.call.hostTypes =>
                      /\ val.py = "class"
                      /\ val \notin ClassesOf(before)
                      /\ DOMAIN ntTypes = (DOMAIN before) \cup {t}
                      /\ ntTypes[t] = val
                 /\ t \notin DOMAIN before /\ t \notin ntLast.call.hostTypes =>
                      val = PyNone /\ ntTypes = before

\* getTypeClass returned, on a later call, the class it had generated for a host
\* type that was never given to registerClass
C10_Witness ==
    /\ ntLast.call.op = "getTypeClass"
    /\ ntLast.call.arg \in DOMAIN ntLast.call.before
    /\ ntLast.call.arg \notin DOMAIN ntLast.call.given
    /\ ntLast.outcome.val.py = "class"
    /\ ntLast.outcome.val.id > 0

(***************************************************************************)
(* C7, C8: the clip panel.                                                 *)
(***************************************************************************)
\* the records of a list that have a title
TitledClips(clips) == SelectSeq(clips, LAMBDA c : c.title # "")

\* C7: after AnimClipsListWidget.refresh the rows are, in order, the records
\* the export node holds for the exporter's current root joint whose title is
\* not empty, each row new (named and showing the title of its record); there
\* is no row when the exporter, the root joint or the export node is missing.
C7_RefreshRows ==
    clipLast.op = "refresh" =>
        IF clipExporter /\ clipRoot # "" /\ clipNode
        THEN LET shown == TitledClips(clipStored[clipRoot])
             IN  /\ Len(clipRows) = Len(shown)
                 /\ \A k \in 1..Len(shown) :
                      /\ clipRows[k]._clip_name = shown[k].title
                      /\ clipRows[k]._previous_name = shown[k].title
                      /\ clipRows[k]._clip_name_lineedit = shown[k].title
        ELSE clipRows = <<>>

\* a refresh with the exporter, root joint and export node present, over a
\* record without a title and a record with one
C7_Witness ==
    /\ clipLast.op = "refresh"
    /\ clipExporter /\ clipRoot # "" /\ clipNode
    /\ \E k \in 1..Len(clipStored[clipRoot]) : clipStored[clipRoot][k].title = ""
    /\ Len(clipRows) >= 1

\* C8: whatever edits a row has had, renames of its title included, clicking
\* its delete button with a root joint and an export node present removes the
\* record the row displays from the export node: the stored clips are one
\* fewer and no longer hold that record.
C8_DeleteRemovesDisplayedRecord ==
    ( /\ clipLast.op = "delete"
      /\ clipExporter /\ clipRoot # "" /\ clipNode
      /\ ClipIndex(clipLast.before[clipRoot], clipLast.clicked._clip_name_lineedit) # 0 ) =>
        /\ Len(clipStored[clipRoot]) = Len(clipLast.before[clipRoot]) - 1
        /\ clipStored = delete_animation_clip(clipLast.before, clipRoot,
                                              clipLast.clicked._clip_name_lineedit)

(***************************************************************************)
(* C9: ObjectSet.union.                                                    *)
(***************************************************************************)
\* the members, before the call, of self and of every argument of the call
UnionOfArguments ==
    setLast.before[setLast.self.obj] \cup
    UNION {setLast.before[setLast.other_sets[i].obj] : i \in 1..Len(setLast.other_sets)}

\* C9: union returns a new ObjectSet whose members are the union of the members
\* of self and of every argument; with an argument that is not an ObjectSet it
\* raises TypeError and the scene is as before, without a new set; self and
\* the arguments have the members they had.
C9_Union ==
    setLast.op = "union" =>
        /\ \A n \in DOMAIN setLast.before :
             n \in DOMAIN setScene /\ setScene[n] = setLast.before[n]
        /\ IF \A i \in 1..Len(setLast.other_sets) : isinstance_ObjectSet(setLast.other_sets[i])
           THEN /\ setLast.outcome.kind = "return"
                /\ isinstance_ObjectSet(setLast.outcome.val)
                /\ setLast.outcome.val.obj \notin DOMAIN setLast.before
                /\ DOMAIN setScene = (DOMAIN setLast.before) \cup {setLast.outcome.val.obj}
                /\ setScene[setLast.outcome.val.obj] = UnionOfArguments
           ELSE /\ setLast.outcome.kind = "raise"
                /\ setLast.outcome.exc = "TypeError"
                /\ setScene = setLast.before

\* a union over two arguments has returned a set of two members or more that
\* differs from the members of self
C9_Witness ==
    /\ setLast.op = "union"
    /\ setLast.outcome.kind = "return"
    /\ Len(setLast.other_sets) = 2
    /\ Cardinality(setScene[setLast.outcome.val.obj]) >= 2
    /\ setScene[setLast.outcome.val.obj] # setLast.before[setLast.self.obj]

\* union has raised TypeError for an argument that follows an ObjectSet
C9_WitnessTypeError ==
    /\ setLast.op = "union"
    /\ setLast.outcome.kind = "raise"
    /\ Len(setLast.other_sets) = 2
    /\ isinstance_ObjectSet(setLast.other_sets[1])

(***************************************************************************)
(* C11: attr and checkShape.                                               *)
(***************************************************************************)
\* the plug name of an attr call, without its "[index]"
AttrNameOf(name) ==
    IF AttrIndexMatch(name)[1] = 0 THEN name
    ELSE SubSeq(name, 1, AttrIndexMatch(name)[1] - 1)

\* C11: whatever attr calls came before on the handle, attr(name,
\* checkShape=False) returns an attribute only when the node itself has the
\* plug, and raises MayaAttributeError when only the node's shape has it.
C11_CheckShapeFalseIgnoresShape ==
    (nodeLast.op = "attr" /\ ~nodeLast.checkShape) =>
        LET obj == nodeHandles[nodeLast.var].obj
            own == findPlug(obj, AttrNameOf(nodeLast.name))
        IN  /\ nodeLast.outcome.kind = "return" => own.py # "None"
            /\ own.py = "None" =>
                 /\ nodeLast.outcome.kind = "raise"
                 /\ nodeLast.outcome.exc = "MayaAttributeError"

(***************************************************************************)
(* C12: cmd.disconnectAttr with one argument.                              *)
(***************************************************************************)
\* the node or plug name the single argument stands for
DisconnectTarget == IF conLast.args[1].py = "str" THEN conLast.args[1].s ELSE conLast.args[1].name

\* the connections of a graph that start or end in x
Touching(graph, x) == {c \in graph : PlugOf(c[1], x) \/ PlugOf(c[2], x)}

\* C12: after disconnectAttr(x) no connection starts or ends in x; the host
\* was asked to disconnect each connection that existed exactly once, source
\* first, a connection between two plugs of one node included; the other
\* connections are as they were.
C12_DisconnectAll ==
    (conLast.op = "disconnectAttr" /\ Len(conLast.args) = 1) =>
        /\ conLast.outcome.kind = "return"
        /\ Touching(conGraph, DisconnectTarget) = {}
        /\ conGraph = conLast.before \ Touching(conLast.before, DisconnectTarget)
        /\ \A i \in 1..Len(conLast.calls) : conLast.calls[i] \in conLast.before
        /\ \A c \in Touching(conLast.before, DisconnectTarget) :
             Cardinality({i \in 1..Len(conLast.calls) : conLast.calls[i] = c}) = 1
        /\ Len(conLast.calls) = Cardinality(Touching(conLast.before, DisconnectTarget))

\* disconnectAttr of a node that had a connection between two of its own
\* plugs, a connection coming in and a connection left alone
C12_Witness ==
    /\ conLast.op = "disconnectAttr"
    /\ conLast.args = <<PyStr("n")>>
    /\ <<"n.a", "n.b">> \in conLast.before
    /\ <<"m.a", "n.a">> \in conLast.before
    /\ <<"m.a", "m.b">> \in conGraph

(***************************************************************************)
(* C13: cmd.listConnections with sourceFirst.                              *)
(***************************************************************************)
\* how the host names the end of a connection in the call: the plug with
\* plugs=True, else its node
ListedSide(plug) ==
    IF "plugs" \in DOMAIN conLast.kwargs /\ Truthy(conLast.kwargs["plugs"]) THEN plug
    ELSE NodeOfPlug(plug)

\* the connections of the graph the call found from the destination side of
\* x and from its source side, each as <<source side, destination side>>
PairsFrom(conns) == {<<ListedSide(c[1]), ListedSide(c[2])>> : c \in conns}

\* the names in the pair at place i of the returned list
ReturnedPair(i) ==
    LET t == _obj_to_name(conLast.outcome.val.items[i])
    IN  IF IsContainer(t) /\ Len(t.items) = 2 THEN <<t.items[1].s, t.items[2].s>> ELSE <<>>

\* C13: listConnections(x, sourceFirst=True) returns pairs (source side,
\* destination side), each of one connection of x; the pairs found from the
\* destination side come before those found from the source side; both sides
\* are queried and returned whatever source and destination the caller passed.
C13_SourceFirstPairs ==
    (conLast.op = "listConnections" /\ conLast.sourceFirst) =>
        LET x == conLast.args[1].s
            outof == PairsFrom({c \in conLast.before : PlugOf(c[1], x)})
            into == PairsFrom({c \in conLast.before : PlugOf(c[2], x)})
            n == IF conLast.outcome.kind = "return" THEN Len(conLast.outcome.val.items) ELSE 0
        IN  /\ conLast.outcome.kind = "return"
            /\ \A i \in 1..n : ReturnedPair(i) \in outof \cup into
            /\ {ReturnedPair(i) : i \in 1..n} = outof \cup into
            /\ \A i, j \in 1..n :
                 (ReturnedPair(i) \in outof \ into /\ ReturnedPair(j) \in into \ outof) => i < j

\* the same, for the calls that ask the host for connection pairs
C13_SourceFirstPairsWithConnections ==
    ( /\ "connections" \in DOMAIN conLast.kwargs
      /\ Truthy(conLast.kwargs["connections"]) ) => C13_SourceFirstPairs

(***************************************************************************)
(* C14: cmd.setAttr.                                                       *)
(***************************************************************************)
\* what one positional argument contributes to the host's arguments: the 3,
\* 4 or 16 numbers of a Vector, Point or Matrix, the elements of a list, set
\* or tuple (each as it is forwarded), else the argument, a handle by name
Contribution(arg) ==
    CASE arg.py = "Vector" -> <<arg.items[1], arg.items[2], arg.items[3]>>
      [] arg.py = "Point" -> <<arg.items[1], arg.items[2], arg.items[3], arg.items[4]>>
      [] arg.py = "Matrix" -> arg.items[1] \o arg.items[2] \o arg.items[3] \o arg.items[4]
      [] IsContainer(arg) -> [i \in 1..Len(arg.items) |-> _dt_to_value(_obj_to_name(arg.items[i]))]
      [] arg.py \in {"node", "attr"} -> <<PyStr(arg.name)>>
      [] OTHER -> <<arg>>

RECURSIVE Contributions(_)
Contributions(items) ==
    IF items = <<>> THEN <<>> ELSE Contribution(Head(items)) \o Contributions(Tail(items))

\* C14: setAttr gives the host the positional arguments flattened one level,
\* in order, and the caller's keyword arguments, with type="string" added
\* exactly when the flattened list has two elements, the second a string,
\* and the caller passed neither typ nor type.
C14_SetAttrForwarding ==
    cmdCall.fn = "setAttr" =>
        LET flat == Contributions(cmdCall.args.items)
            given == _obj_to_name_kw(cmdCall.kwargs)
            stringCase == /\ Len(flat) = 2
                          /\ flat[2].py = "str"
                          /\ "typ" \notin DOMAIN cmdCall.kwargs
                          /\ "type" \notin DOMAIN cmdCall.kwargs
        IN  /\ Len(cmdHostLog) = 1
            /\ cmdHostLog[1].cmd = "setAttr"
            /\ cmdHostLog[1].args = flat
            /\ stringCase =>
                 /\ DOMAIN cmdHostLog[1].kwargs = (DOMAIN given) \cup {"type"}
                 /\ cmdHostLog[1].kwargs["type"] = PyStr("string")
                 /\ \A k \in DOMAIN given : cmdHostLog[1].kwargs[k] = given[k]
            /\ ~stringCase => cmdHostLog[1].kwargs = given

\* a setAttr call with a name and a string, to which type="string" was added
C14_Witness ==
    /\ cmdCall.fn = "setAttr"
    /\ Len(cmdHostLog) = 1
    /\ "type" \notin DOMAIN cmdCall.kwargs
    /\ "type" \in DOMAIN cmdHostLog[1].kwargs
    /\ "lock" \in DOMAIN cmdHostLog[1].kwargs

(***************************************************************************)
(* C15: the time argument of cmd.keyframe and cmd.cutKey.                  *)
(***************************************************************************)
\* the value the caller gave for a keyword, None when it was not given
Given(key) == IF key \in DOMAIN cmdCall.kwargs THEN _obj_to_name(cmdCall.kwargs[key]) ELSE PyNone

\* what holds of the host call whatever the time is taken from: no keyword
\* k, a number as a one-element tuple and another value as it is, the other
\* keywords as given
TimeForwarded(t) ==
    LET sent == cmdHostLog[1].kwargs
    IN  /\ Len(cmdHostLog) = 1
        /\ cmdHostLog[1].cmd = cmdCall.fn
        /\ "k" \notin DOMAIN sent
        /\ ("time" \in DOMAIN sent) = (t.py # "None")
        /\ "time" \in DOMAIN sent =>
             sent["time"] = IF IsIntOrFloat(t) THEN PyTuple(<<t>>) ELSE t
        /\ (DOMAIN sent) \ {"time"} = (DOMAIN cmdCall.kwargs) \ {"time", "k"}
        /\ \A key \in (DOMAIN sent) \ {"time"} : sent[key] = Given(key)

\* C15 as stated: the host receives time iff the caller passed a time or a k
\* that is not None; time is used when both are given.
C15_TimeOrKeyNotNone ==
    cmdCall.fn \in {"keyframe", "cutKey"} =>
        /\ TimeForwarded(IF "time" \in DOMAIN cmdCall.kwargs /\ "k" \in DOMAIN cmdCall.kwargs
                         THEN Given("time")
                         ELSE IF Given("time").py # "None" THEN Given("time") ELSE Given("k"))
        /\ ("time" \in DOMAIN cmdHostLog[1].kwargs) =
             (Given("time").py # "None" \/ Given("k").py # "None")

\* C15, amended: keyframe and cutKey take the time from the keyword time when
\* the caller gave it, a None included, and from k only when time was not
\* given; the host receives time iff that value is not None, a number as a
\* one-element tuple and another value unchanged; it never receives k, and
\* the other keywords are forwarded unchanged.
C15_TimeTakenFromTimeFirst ==
    cmdCall.fn \in {"keyframe", "cutKey"} =>
        TimeForwarded(IF "time" \in DOMAIN cmdCall.kwargs THEN Given("time") ELSE Given("k"))

\* a call with time=0 and a k, where the host received time=(0,)
C15_Witness ==
    /\ cmdCall.fn \in {"keyframe", "cutKey"}
    /\ "k" \in DOMAIN cmdCall.kwargs
    /\ "time" \in DOMAIN cmdCall.kwargs
    /\ cmdCall.kwargs["time"] = PyNum(0)
    /\ cmdHostLog[1].kwargs["time"] = PyTuple(<<PyNum(0)>>)

(***************************************************************************)
(* C16: cmd.sets exchanges the first positional argument and the value of  *)
(* the first set flag.                                                     *)
(***************************************************************************)
\* the flags of the call that cmd.sets knows, in keyword order
MatchingFlags ==
    SelectSeq(cmdCall.order, LAMBDA f : f \in _set_set_flags \cup _set_flags)

\* C16: for a call sets(S, ..., flag=items, ...) whose first matching flag is
\* a set-to-set flag with a list, tuple, set or string as value, the host
\* receives items as positional arguments and flag=S; for copy, clear and
\* flatten it receives flag=S and no positional argument; the keywords after
\* the first matching flag, and every keyword of a call without a matching
\* flag, are forwarded as given.
C16_SetsReshaped ==
    (cmdCall.fn = "sets" /\ cmdCall.args.items # <<>>) =>
        LET S == _obj_to_name(cmdCall.args.items[1])
            sent == cmdHostLog[1]
            given == [k \in DOMAIN cmdCall.kwargs |-> _obj_to_name(cmdCall.kwargs[k])]
        IN  /\ Len(cmdHostLog) = 1
            /\ sent.cmd = "sets"
            /\ DOMAIN sent.kwargs = DOMAIN given
            /\ IF MatchingFlags = <<>>
               THEN /\ sent.args = _obj_to_name(cmdCall.args).items
                    /\ sent.kwargs = given
               ELSE LET flag == MatchingFlags[1]
                    IN  /\ sent.kwargs[flag] = S
                        /\ \A k \in (DOMAIN given) \ {flag} : sent.kwargs[k] = given[k]
                        /\ flag \in _set_flags => sent.args = <<>>
                        /\ (flag \in _set_set_flags /\ IsContainer(given[flag])) =>
                               sent.args = given[flag].items
                        /\ (flag \in _set_set_flags /\ given[flag].py = "str") =>
                               sent.args = <<given[flag]>>

\* sets(S, add=[...], copy=...) or the like: two matching flags, the first a
\* set-to-set flag with a non-empty list, and the host called
C16_Witness ==
    /\ cmdCall.fn = "sets"
    /\ cmdCall.args.items # <<>>
    /\ Len(MatchingFlags) = 2
    /\ MatchingFlags[1] \in _set_set_flags
    /\ cmdCall.kwargs[MatchingFlags[1]].py = "list"
    /\ Len(cmdHostLog) = 1
    /\ Len(cmdHostLog[1].args) = 2

(***************************************************************************)
(* C17: wrapped constraint commands.                                       *)
(***************************************************************************)
\* the call asked for query mode, by the long or by the short keyword
QueryMode ==
    \/ "query" \in DOMAIN cmdCall.kwargs /\ cmdCall.kwargs["query"] = PyBool(TRUE)
    \/ "q" \in DOMAIN cmdCall.kwargs /\ cmdCall.kwargs["q"] = PyBool(TRUE)

\* what the wrapper does to a result before it returns it
WrapConverted(v) == IF cmdCall.wrap_object THEN _name_to_obj(v, cmdCall.scope, PyNone) ELSE v

\* C17: a wrapped command whose name ends in "Constraint", the host having
\* answered with a list or None: outside query mode it returns the first
\* element of the host's result, None for an empty one; in query mode, asked
\* for by query=True or by q=True, it returns the host's result whole.
C17_ConstraintQueryKeepsResult ==
    ( /\ cmdCall.fn # "none"
      /\ EndsWith(cmdCall.fn, "Constraint")
      /\ Len(cmdHostLog) >= 1
      /\ cmdHostLog[1].reply.ok
      /\ cmdHostLog[1].reply.val.py \in {"list", "None"} ) =>
        LET res == cmdHostLog[1].reply.val
        IN  IF QueryMode THEN cmdOutcome = Return(WrapConverted(res))
            ELSE IF Truthy(res) THEN cmdOutcome = Return(WrapConverted(res.items[1]))
            ELSE cmdOutcome = Return(PyNone)

(***************************************************************************)
(* C18: getParent(generations).                                            *)
(***************************************************************************)
\* the number of components of a full path name: the node and its ancestors
RECURSIVE DagDepth(_)
DagDepth(p) ==
    LET parents == {q \in dagScene : DagIsParent(q, p)}
    IN  IF parents = {} THEN 1 ELSE 1 + DagDepth(CHOOSE q \in parents : TRUE)

\* the ancestor n levels up, n less than the depth
RECURSIVE DagAncestor(_, _)
DagAncestor(p, n) ==
    IF n = 0 THEN p ELSE DagAncestor(CHOOSE q \in dagScene : DagIsParent(q, p), n - 1)

\* C18: on a node of depth d, getParent(g) returns, for 1 <= g < d, the
\* ancestor g levels up, which is also what g calls of getParent(1) in a chain
\* return; None for g >= d; the node itself for g = 0; for negative g the
\* ancestor of depth |g| when |g| <= d, and None when |g| > d.
C18_GetParent ==
    dagLast.op # "none" =>
        LET d == DagDepth(dagLast.node)
            g == dagLast.generations
        IN  /\ (1 <= g /\ g < d) => dagLast.outcome = Return(PyNode(DagAncestor(dagLast.node, g)))
            /\ g >= d => dagLast.outcome = Return(PyNone)
            /\ g = 0 => dagLast.outcome = Return(PyNode(dagLast.node))
            /\ (g < 0 /\ -g <= d) =>
                 dagLast.outcome = Return(PyNode(DagAncestor(dagLast.node, d + g)))
            /\ (g < 0 /\ -g > d) => dagLast.outcome = Return(PyNone)
            /\ dagLast.op = "chain" =>
                 dagLast.outcome = _getParent(dagScene, dagLast.node, g)

\* a chain of two getParent(1) calls on a node of depth 3 that reached the root
C18_Witness ==
    /\ dagLast.op = "chain"
    /\ dagLast.generations = 2
    /\ DagDepth(dagLast.node) = 3
    /\ dagLast.outcome.val.py = "node"
    /\ DagDepth(dagLast.outcome.val.name) = 1

\* getParent(-2) on a node of depth 3 returned the node's parent
C18_WitnessNegative ==
    /\ dagLast.op = "getParent"
    /\ dagLast.generations = -2
    /\ DagDepth(dagLast.node) = 3
    /\ dagLast.outcome = Return(PyNode(DagAncestor(dagLast.node, 1)))

(***************************************************************************)
(* C19: _name_to_obj keeps the shape of its argument.                      *)
(***************************************************************************)
\* out is what the claim says _name_to_obj makes of the value in
RECURSIVE ShapeKept(_, _, _, _)
ShapeKept(in, out, scope, known_node) ==
    IF in.py = "None" THEN out = PyNone
    ELSE IF in.py \in {"list", "tuple", "set"}
    THEN /\ out.py = in.py
         /\ Len(out.items) = Len(in.items)
         /\ \A i \in 1..Len(in.items) : ShapeKept(in.items[i], out.items[i], scope, known_node)
    ELSE IF in.py = "str"
    THEN LET bound == IF scope = SCOPE_ATTR /\ known_node # PyNone
                      THEN known_node.s \o "." \o in.s
                      ELSE in.s
         IN  IF bound \in CmdSceneNodes THEN out = PyNode(bound)
             ELSE IF bound \in CmdSceneAttrs THEN out = PyAttr(bound)
             ELSE out = in
    ELSE out = in

\* C19: _name_to_obj returns, and what it returns has the shape of its
\* argument: None for None, a container of the same class, length and order
\* with converted elements at every depth, a handle for a string that binds
\* (bound as "<node>.<s>" in attribute scope with a known node), the string
\* itself when it does not bind, and any other value as it is.
C19_NameToObjKeepsShape ==
    cmdCall.fn = "_name_to_obj" =>
        /\ cmdOutcome.kind = "return"
        /\ ShapeKept(cmdCall.args.items[1], cmdOutcome.val, cmdCall.scope, cmdCall.known_node)

\* a nested list converted in attribute scope with a known node: "tx" inside
\* the inner list bound as a.tx, "zz" inside the tuple left a string
C19_Witness ==
    /\ cmdCall.fn = "_name_to_obj"
    /\ cmdCall.scope = SCOPE_ATTR
    /\ cmdCall.known_node = PyStr("a")
    /\ cmdCall.args.items[1].py = "list"
    /\ Len(cmdCall.args.items[1].items) = 4
    /\ cmdOutcome.val.items[2].items[1] = PyAttr("a.tx")
    /\ cmdOutcome.val.items[2].items[2].items[1] = PyStr("zz")

(***************************************************************************)
(* C20: a clip row tracks the title of its record through renames.         *)
(***************************************************************************)
\* the last operation was an edit of a row whose update reached the export node
EditReachedUpdate ==
    /\ clipLast.op = "edit"
    /\ clipExporter /\ clipRoot # "" /\ clipNode
    /\ clipLast.outcome.kind = "return"

\* C20: an edit of a row sends its update under the title the row tracks,
\* which is the title the row last wrote or was created with, and the tracked
\* title changes only when the update call has returned; the update changes
\* one record and adds none, and the title the row tracks afterwards finds
\* that same record, so the next edit of the row modifies it again.
C20_RenameTracksRecord ==
    clipLast.op = "edit" =>
        LET was == clipLast.clicked
            now == clipRows[clipLast.row]
            before == get_animation_clips(clipLast.before, clipRoot)
            after == get_animation_clips(clipStored, clipRoot)
            k == ClipIndex(before, was._previous_name)
        IN  IF ~EditReachedUpdate
            THEN now._previous_name = was._previous_name /\ clipStored = clipLast.before
            ELSE /\ now._previous_name = now._clip_name_lineedit
                 /\ Len(after) = Len(before)
                 /\ k # 0
                 /\ after[k].title = now._clip_name_lineedit
                 /\ \A j \in 1..Len(before) : j # k => after[j] = before[j]
                 /\ ClipIndex(after, now._previous_name) = k

(***************************************************************************)
(* C21: the Delete All Clips button.                                       *)
(***************************************************************************)
\* C21: a click on Delete All Clips, the panel having a root joint and the
\* export node existing, leaves the export node without a clip and the panel
\* without a row; with the root joint or the export node missing it changes
\* neither the stored clips nor the rows.
C21_DeleteAllClips ==
    [][clipLast'.op = "delete_all" =>
         IF clipListRoot # "" /\ clipNode
         THEN /\ \A j \in DOMAIN clipStored' : clipStored'[j] = <<>>
              /\ clipRows' = <<>>
         ELSE /\ clipStored' = clipStored
              /\ clipRows' = clipRows]_vars

\* the click removed two stored clips and the rows that showed them
C21_Witness ==
    /\ clipLast.op = "delete_all"
    /\ Len(get_animation_clips(clipLast.before, clipRoot)) = 2
    /\ get_animation_clips(clipStored, clipRoot) = <<>>
    /\ clipRows = <<>>

\* the click with the export node gone found rows and left them
C21_WitnessNoNode ==
    /\ clipLast.op = "delete_all"
    /\ ~clipNode
    /\ clipRows # <<>>

(***************************************************************************)
(* C22: refreshing a row does not write to the export node.                *)
(***************************************************************************)
\* C22: AnimClipWidget.refresh never causes an update_animation_clip call and
\* leaves the stored records as they were: the refresh of a row of the panel
\* that has just run, and the refresh that the construction of a row for any
\* title would run in this state, the branch that clears the fields included.
C22_RefreshReadOnly ==
    /\ clipLast.op = "row_refresh" =>
         /\ clipLast.outcome = Return(PyNum(0))
         /\ clipStored = clipLast.before
    /\ \A title \in TitleTexts \cup {"Untitled1"} :
         LET r == refreshWithSignals(CreatedRow(title), clipExporter, clipRoot, clipNode,
                                     clipStored)
         IN  /\ r.updates = 0
             /\ r.stored = clipStored
             /\ r.row = AnimClipWidget__init__(title, clipExporter, clipRoot, clipNode, clipStored)

\* a row that showed an edited title and frame was refreshed with the export
\* node gone: its fields were cleared, signals and all
C22_Witness ==
    /\ clipLast.op = "row_refresh"
    /\ ~clipNode
    /\ clipRoot # ""
    /\ clipLast.clicked._clip_name_lineedit = "Run"
    /\ clipLast.clicked._start_frame_box = "5"
    /\ clipRows[clipLast.row]._clip_name_lineedit = "Untitled"
    /\ clipRows[clipLast.row]._start_frame_box = ""

\* a row whose fields differed from its record was refreshed with the export
\* node present
C22_WitnessBlocked ==
    /\ clipLast.op = "row_refresh"
    /\ clipNode /\ clipExporter /\ clipRoot # ""
    /\ clipRows[clipLast.row] # clipLast.clicked
    /\ get_animation_clips(clipStored, clipRoot) # <<>>

(***************************************************************************)
(* C23: the stored record follows the fields of the row.                   *)
(***************************************************************************)
\* C23: after an edit of a field of a row, the root joint and the export node
\* present and the row having a record, that record holds what the row shows:
\* its title, its checkbox, the numbers of its frame boxes, an empty frame box
\* included, and the empty string for the layer choice None, which is the
\* choice of every row here.
C23_RecordShowsRow ==
    (clipLast.op = "edit" /\ clipExporter /\ clipRoot # "" /\ clipNode) =>
        LET now == clipRows[clipLast.row]
            k == ClipIndex(get_animation_clips(clipLast.before, clipRoot),
                           clipLast.clicked._previous_name)
            record == get_animation_clips(clipStored, clipRoot)[k]
        IN  k # 0 =>
              /\ record.title = now._clip_name_lineedit
              /\ record.enabled = now._export_checkbox
              /\ str(record.start_frame) = now._start_frame_box
              /\ str(record.end_frame) = now._end_frame_box
              /\ record.animLayer = ""

=============================================================================
